---- MODULE Spec2Model ----
(***************************************************************************)
(* A model of vsengine's concurrency layer.                                *)
(*                                                                         *)
(*   SpecBuffer : vsengine._nodes.buffer_futures, the ordered prefetch     *)
(*                pipeline, with its completion callbacks running on       *)
(*                worker threads or re-entrantly on the registering thread *)
(*   SpecClose  : vsengine._nodes.close_when_needed                        *)
(*   SpecPolicy : vsengine.policy, the environment policy with its store,  *)
(*                its mutex, its per-thread inline override and its        *)
(*                managed environments, called from several threads        *)
(*   SpecPolicyOne : the same policy called from one thread                *)
(*   SpecManaged : ManagedEnvironment objects in use on that policy         *)
(*   SpecKeep   : functions wrapped by loops.keep_environment               *)
(*   SpecLoops  : vsengine.loops, the current event loop                    *)
(*   SpecNormalise : buffer_futures called again and again, up to the       *)
(*                normalisation of its arguments                            *)
(*   SpecFrames : vsengine.video.frames, with or without the pipeline       *)
(*   SpecLive   : buffer_futures with a consumer that keeps iterating and   *)
(*                threads that are all scheduled                           *)
(*   SpecInline : nested inline sections of a managed environment          *)
(*   SpecRender : vsengine.video.render                                    *)
(*                                                                         *)
(* Threads are numbered: 0 is the thread that iterates the generator, and  *)
(* thread k+1 is the thread that completes source future k.                *)
(***************************************************************************)
EXTENDS Integers, Sequences, FiniteSets, TLC

\* ------------------------------------------------------------- bounds
MaxItems == 3
MaxRes == 3
MaxPrefetch == 2
MaxBacklog == 3
NegParams == 1
NumThreads == 2
NumPolThreads == 2
MaxTokens == 2
MaxUseDepth == 2
MaxCallDepth == 1
MaxLoops == 2
MaxCycles == 2
MaxFrames == 3

VARIABLES
    \* buffer_futures
    prefetch, backlog, n, i, finished, running, reorder, sidx,
    lockOwner, lockCount, stack, fstate, cb, out,
    \* close_when_needed
    srcLen, cwnPc, cur, fut, callbacks, todo, derived, entered, exits,
    got, yielded,
    \* policy
    callers, registered, storeKind, slot, tok, local, mutex, ppc, arg, prev,
    disposedH, destroyCount, last, lastSet, disposeCalled,
    \* managed environments in use
    finalized, warned, useStack, captured,
    \* loops
    currentLoop, loopKind, attachedL, cycles, loopLog,
    \* frames
    rawPrefetch, rawBacklog, mode, requested, started,
    \* render
    y4m, frameCount, renderPc, currentFrame, frameFut, paired, handed

bufVars == <<prefetch, backlog, n, i, finished, running, reorder, sidx,
             lockOwner, lockCount, stack, fstate, cb, out>>

cwnVars == <<srcLen, cwnPc, cur, fut, callbacks, todo, derived, entered,
             exits, got, yielded>>

\* what a policy is built with and who calls it: fixed from Init on
polConf == <<callers, storeKind>>

polVars == <<callers, registered, storeKind, slot, tok, local, mutex, ppc,
             arg, prev, disposedH, destroyCount, last, lastSet,
             disposeCalled>>

\* ManagedEnvironment objects and what is built on them
envVars == <<finalized, warned, useStack, captured>>

\* the loops module: the current loop, the loops, the futures of next_cycle
loopVars == <<currentLoop, loopKind, attachedL, cycles, loopLog>>

\* a call of video.frames or of buffer_futures, and a bare frame generator
frmVars == <<rawPrefetch, rawBacklog, mode, requested, started>>

\* a call of video.render: its generator, the frame requests behind the
\* futures it has handed out and what those futures resolved to
rndVars == <<y4m, frameCount, renderPc, currentFrame, frameFut, paired, handed>>

vars == <<bufVars, cwnVars, polVars, envVars, loopVars, frmVars, rndVars>>

\* what the steps of one pipeline leave alone: the state of the others
notBuffer == <<cwnVars, polVars, envVars, loopVars, frmVars, rndVars>>
notClose == <<bufVars, polVars, envVars, loopVars, frmVars, rndVars>>
notPolicy == <<bufVars, cwnVars, envVars, loopVars, frmVars, rndVars>>
notManaged == <<bufVars, cwnVars, loopVars, frmVars, rndVars>>
notLoops == <<bufVars, cwnVars, polVars, envVars, frmVars, rndVars>>
notFrames == <<cwnVars, polVars, envVars, loopVars, rndVars>>
notRender == <<bufVars, cwnVars, polVars, envVars, loopVars, frmVars>>

Main == 0
NoThread == 0 - 1
Threads == 0..MaxItems
Items == 0..(MaxItems - 1)
Worker(k) == k + 1

\* ------------------------------------------------ parameter normalisation
\* prefetch == 0 -> core.num_threads
NormPrefetch(p) == IF p = 0 THEN NumThreads ELSE p

\* a normalisation without the clamp to prefetch
NormBacklogNoClamp(p, b) ==
    IF b = <<>> THEN NormPrefetch(p) * 3 ELSE b[1]

\* backlog is <<>> for None and <<b>> for a given integer
NormBacklog(p, b) ==
    LET pf == NormPrefetch(p)
        b1 == IF b = <<>> THEN pf * 3 ELSE b[1]
    IN  IF b1 < pf THEN pf ELSE b1

RawPrefetch == (0 - NegParams)..MaxPrefetch
RawBacklog == {<<>>} \cup {<<b>> : b \in (0 - NegParams)..MaxBacklog}

\* ------------------------------------------------------- call stacks
Frame(fn, pc, f) == [fn |-> fn, pc |-> pc, f |-> f]
Top(t) == stack[t][Len(stack[t])]
At(t, fn, pc) == Len(stack[t]) > 0 /\ Top(t).fn = fn /\ Top(t).pc = pc
Goto(t, pc) == [stack EXCEPT ![t] = [@ EXCEPT ![Len(@)].pc = pc]]
Call(t, retpc, fr) ==
    [stack EXCEPT ![t] = Append([@ EXCEPT ![Len(@)].pc = retpc], fr)]
Return(t) == [stack EXCEPT ![t] = SubSeq(@, 1, Len(@) - 1)]

\* ------------------------------------------------------- lock = RLock()
CanAcquire(t) == lockOwner \in {NoThread, t}
Acquire(t) == lockOwner' = t /\ lockCount' = lockCount + 1
Release(t) ==
    /\ lockCount' = lockCount - 1
    /\ lockOwner' = IF lockCount = 1 THEN NoThread ELSE lockOwner

\* ------------------------------------------------------- _request_next
\* with lock: if finished: return
\* (_request_next is only called from _refill's loop, by the thread that
\* holds the lock, so this acquisition never waits)
ReqCheck(t) ==
    /\ At(t, "_request_next", "Q0")
    /\ CanAcquire(t)
    /\ IF finished
       THEN stack' = Return(t) /\ UNCHANGED <<lockOwner, lockCount>>
       ELSE stack' = Goto(t, "Q2") /\ Acquire(t)
    /\ UNCHANGED <<notBuffer, prefetch, backlog, n, i, finished, running, reorder, sidx,
                   fstate, cb, out>>

\* ni = next(enum_fut, None); if ni is None: finished = True; return
\* Pulling item i from the source creates (starts) future i.
ReqPull(t) ==
    /\ At(t, "_request_next", "Q2")
    /\ IF i = n
       THEN /\ finished' = TRUE
            /\ stack' = Return(t)
            /\ Release(t)
            /\ UNCHANGED <<i, fstate>>
       ELSE /\ i' = i + 1
            /\ fstate' = [fstate EXCEPT ![i] = "pending"]
            /\ stack' = [stack EXCEPT ![t] =
                            [@ EXCEPT ![Len(@)] = Frame("_request_next", "Q3", i)]]
            /\ UNCHANGED <<finished, lockOwner, lockCount>>
    /\ UNCHANGED <<notBuffer, prefetch, backlog, n, running, reorder, sidx, cb, out>>

\* running += 1
ReqRun(t) ==
    /\ At(t, "_request_next", "Q3")
    /\ running' = running + 1
    /\ stack' = Goto(t, "Q4")
    /\ UNCHANGED <<notBuffer, prefetch, backlog, n, i, finished, reorder, sidx,
                   lockOwner, lockCount, fstate, cb, out>>

\* reorder[idx] = fut
ReqStore(t) ==
    /\ At(t, "_request_next", "Q4")
    /\ reorder' = reorder \cup {Top(t).f}
    /\ stack' = Goto(t, "Q5")
    /\ UNCHANGED <<notBuffer, prefetch, backlog, n, i, finished, running, sidx,
                   lockOwner, lockCount, fstate, cb, out>>

\* fut.add_done_callback(_finished): a pending future keeps the callback for
\* the completing thread; a future that is already done runs it at once, on
\* the calling thread, inside the lock.
ReqAddCb(t) ==
    /\ At(t, "_request_next", "Q5")
    /\ LET k == Top(t).f IN
       IF fstate[k] = "pending"
       THEN /\ cb' = [cb EXCEPT ![k] = "registered"]
            /\ stack' = Goto(t, "Q6")
       ELSE /\ cb' = [cb EXCEPT ![k] = "running"]
            /\ stack' = Call(t, "Q6", Frame("_finished", "F0", k))
    /\ UNCHANGED <<notBuffer, prefetch, backlog, n, i, finished, running, reorder, sidx,
                   lockOwner, lockCount, fstate, out>>

ReqReturn(t) ==
    /\ At(t, "_request_next", "Q6")
    /\ stack' = Return(t)
    /\ Release(t)
    /\ UNCHANGED <<notBuffer, prefetch, backlog, n, i, finished, running, reorder, sidx,
                   fstate, cb, out>>

\* ------------------------------------------------------------ _finished
\* with lock: running -= 1
\* (waits until no other thread holds the lock)
FinDec(t) ==
    /\ At(t, "_finished", "F0")
    /\ CanAcquire(t)
    /\ Acquire(t)
    /\ running' = running - 1
    /\ stack' = Goto(t, "F2")
    /\ UNCHANGED <<notBuffer, prefetch, backlog, n, i, finished, reorder, sidx,
                   fstate, cb, out>>

\* if finished: return
FinCheck(t) ==
    /\ At(t, "_finished", "F2")
    /\ IF finished
       THEN /\ stack' = Return(t)
            /\ Release(t)
            /\ cb' = [cb EXCEPT ![Top(t).f] = "done"]
       ELSE /\ stack' = Goto(t, "F3")
            /\ UNCHANGED <<lockOwner, lockCount, cb>>
    /\ UNCHANGED <<notBuffer, prefetch, backlog, n, i, finished, running, reorder, sidx,
                   fstate, out>>

\* mutant: a failed future is not recorded (finished is left alone)
FinExcNoStop(t) ==
    /\ At(t, "_finished", "F3")
    /\ IF fstate[Top(t).f] = "fail"
       THEN /\ stack' = Return(t)
            /\ Release(t)
            /\ cb' = [cb EXCEPT ![Top(t).f] = "done"]
       ELSE /\ stack' = Call(t, "F4", Frame("_refill", "R0", 0 - 1))
            /\ UNCHANGED <<lockOwner, lockCount, cb>>
    /\ UNCHANGED <<notBuffer, prefetch, backlog, n, i, finished, running, reorder, sidx,
                   fstate, out>>

\* mutant: a failure discards the buffered items behind the failed one
FinExcDiscards(t) ==
    /\ At(t, "_finished", "F3")
    /\ IF fstate[Top(t).f] = "fail"
       THEN /\ finished' = TRUE
            /\ reorder' = {j \in reorder : j <= Top(t).f}
            /\ stack' = Return(t)
            /\ Release(t)
            /\ cb' = [cb EXCEPT ![Top(t).f] = "done"]
       ELSE /\ stack' = Call(t, "F4", Frame("_refill", "R0", 0 - 1))
            /\ UNCHANGED <<finished, reorder, lockOwner, lockCount, cb>>
    /\ UNCHANGED <<notBuffer, prefetch, backlog, n, i, running, sidx,
                   fstate, out>>

\* mutant: a callback of a successful future does not refill
FinExcNoRefill(t) ==
    /\ At(t, "_finished", "F3")
    /\ finished' = (finished \/ fstate[Top(t).f] = "fail")
    /\ stack' = Return(t)
    /\ Release(t)
    /\ cb' = [cb EXCEPT ![Top(t).f] = "done"]
    /\ UNCHANGED <<notBuffer, prefetch, backlog, n, i, running, reorder, sidx,
                   fstate, out>>

\* if f.exception() is not None: finished = True; return
\* else: _refill()
FinExc(t) ==
    /\ At(t, "_finished", "F3")
    /\ IF fstate[Top(t).f] = "fail"
       THEN /\ finished' = TRUE
            /\ stack' = Return(t)
            /\ Release(t)
            /\ cb' = [cb EXCEPT ![Top(t).f] = "done"]
       ELSE /\ stack' = Call(t, "F4", Frame("_refill", "R0", 0 - 1))
            /\ UNCHANGED <<finished, lockOwner, lockCount, cb>>
    /\ UNCHANGED <<notBuffer, prefetch, backlog, n, i, running, reorder, sidx,
                   fstate, out>>

FinReturn(t) ==
    /\ At(t, "_finished", "F4")
    /\ stack' = Return(t)
    /\ Release(t)
    /\ cb' = [cb EXCEPT ![Top(t).f] = "done"]
    /\ UNCHANGED <<notBuffer, prefetch, backlog, n, i, finished, running, reorder, sidx,
                   fstate, out>>

\* -------------------------------------------------------------- _refill
\* if finished: return        (read outside the lock)
RefillCheck(t) ==
    /\ At(t, "_refill", "R0")
    /\ stack' = IF finished THEN Return(t) ELSE Goto(t, "R1")
    /\ UNCHANGED <<notBuffer, prefetch, backlog, n, i, finished, running, reorder, sidx,
                   lockOwner, lockCount, fstate, cb, out>>

\* mutant: the backlog rule is missing
RefillCondNoBacklog ==
    /\ ~finished
    /\ running < prefetch

\* (not finished) and (running < prefetch) and len(reorder) < backlog
RefillCond ==
    /\ ~finished
    /\ running < prefetch
    /\ Cardinality(reorder) < backlog

\* with lock: while <RefillCond>: _request_next()
\* (waits until no other thread holds the lock, then evaluates the loop
\* condition for the first time)
RefillEnter(t) ==
    /\ At(t, "_refill", "R1")
    /\ CanAcquire(t)
    /\ IF RefillCond
       THEN /\ stack' = Call(t, "R2", Frame("_request_next", "Q0", 0 - 1))
            /\ Acquire(t)
       ELSE /\ stack' = Return(t)
            /\ UNCHANGED <<lockOwner, lockCount>>
    /\ UNCHANGED <<notBuffer, prefetch, backlog, n, i, finished, running, reorder, sidx,
                   fstate, cb, out>>

\* the loop condition again, after _request_next() has returned
RefillWhile(t) ==
    /\ At(t, "_refill", "R2")
    /\ IF RefillCond
       THEN /\ stack' = Call(t, "R2", Frame("_request_next", "Q0", 0 - 1))
            /\ UNCHANGED <<lockOwner, lockCount>>
       ELSE /\ stack' = Return(t)
            /\ Release(t)
    /\ UNCHANGED <<notBuffer, prefetch, backlog, n, i, finished, running, reorder, sidx,
                   fstate, cb, out>>

\* ------------------------------------------- the generator's own frame
\* first next(): _refill(); sidx = 0
GenStart ==
    /\ At(Main, "gen", "start")
    /\ stack' = Call(Main, "loop", Frame("_refill", "R0", 0 - 1))
    /\ UNCHANGED <<notBuffer, prefetch, backlog, n, i, finished, running, reorder, sidx,
                   lockOwner, lockCount, fstate, cb, out>>

\* mutant: the loop is "while not finished"
GenLoopFinishedOnly ==
    /\ At(Main, "gen", "loop")
    /\ stack' = Goto(Main, IF ~finished THEN "body" ELSE "exit")
    /\ UNCHANGED <<notBuffer, prefetch, backlog, n, i, finished, running, reorder, sidx,
                   lockOwner, lockCount, fstate, cb, out>>

\* while (not finished) or (len(reorder) > 0) or running > 0:
\* three reads, none under the lock
GenLoopFinished ==
    /\ At(Main, "gen", "loop")
    /\ stack' = Goto(Main, IF ~finished THEN "body" ELSE "loop2")
    /\ UNCHANGED <<notBuffer, prefetch, backlog, n, i, finished, running, reorder, sidx,
                   lockOwner, lockCount, fstate, cb, out>>

\* mutant: the loop condition ignores the reorder buffer
BufferedLeftIgnored == FALSE

\* len(reorder) > 0
BufferedLeft == Cardinality(reorder) > 0

GenLoopReorder ==
    /\ At(Main, "gen", "loop2")
    /\ stack' = Goto(Main, IF BufferedLeft THEN "body" ELSE "loop3")
    /\ UNCHANGED <<notBuffer, prefetch, backlog, n, i, finished, running, reorder, sidx,
                   lockOwner, lockCount, fstate, cb, out>>

\* mutant: the loop condition ignores running
GenLoopRunningIgnored ==
    /\ At(Main, "gen", "loop3")
    /\ stack' = Goto(Main, "exit")
    /\ UNCHANGED <<notBuffer, prefetch, backlog, n, i, finished, running, reorder, sidx,
                   lockOwner, lockCount, fstate, cb, out>>

GenLoopRunning ==
    /\ At(Main, "gen", "loop3")
    /\ stack' = Goto(Main, IF running > 0 THEN "body" ELSE "exit")
    /\ UNCHANGED <<notBuffer, prefetch, backlog, n, i, finished, running, reorder, sidx,
                   lockOwner, lockCount, fstate, cb, out>>

\* if sidx not in reorder: continue
GenSpinCheck ==
    /\ At(Main, "gen", "body")
    /\ stack' = Goto(Main, IF sidx \notin reorder THEN "loop" ELSE "take")
    /\ UNCHANGED <<notBuffer, prefetch, backlog, n, i, finished, running, reorder, sidx,
                   lockOwner, lockCount, fstate, cb, out>>

\* mutant: the delivered entry is left in the reorder buffer
GenTakeKeeps ==
    /\ At(Main, "gen", "take")
    /\ sidx' = sidx + 1
    /\ stack' = [stack EXCEPT ![Main] =
                    <<Frame("gen", "yield", sidx), Frame("_refill", "R0", 0 - 1)>>]
    /\ UNCHANGED <<notBuffer, prefetch, backlog, n, i, finished, running, reorder,
                   lockOwner, lockCount, fstate, cb, out>>

\* fut = reorder[sidx]; del reorder[sidx]; sidx += 1; _refill()
GenTake ==
    /\ At(Main, "gen", "take")
    /\ reorder' = reorder \ {sidx}
    /\ sidx' = sidx + 1
    /\ stack' = [stack EXCEPT ![Main] =
                    <<Frame("gen", "yield", sidx), Frame("_refill", "R0", 0 - 1)>>]
    /\ UNCHANGED <<notBuffer, prefetch, backlog, n, i, finished, running,
                   lockOwner, lockCount, fstate, cb, out>>

\* yield fut
GenYield ==
    /\ At(Main, "gen", "yield")
    /\ out' = Append(out, Top(Main).f)
    /\ stack' = Goto(Main, "suspended")
    /\ UNCHANGED <<notBuffer, prefetch, backlog, n, i, finished, running, reorder, sidx,
                   lockOwner, lockCount, fstate, cb>>

\* the consumer asks for the next element
ConsumerNext ==
    /\ At(Main, "gen", "suspended")
    /\ stack' = Goto(Main, "loop")
    /\ UNCHANGED <<notBuffer, prefetch, backlog, n, i, finished, running, reorder, sidx,
                   lockOwner, lockCount, fstate, cb, out>>

\* the consumer closes the generator: GeneratorExit at the yield,
\* finally: finished = True     (written outside the lock)
ConsumerClose ==
    /\ At(Main, "gen", "suspended")
    /\ finished' = TRUE
    /\ stack' = Goto(Main, "closed")
    /\ UNCHANGED <<notBuffer, prefetch, backlog, n, i, running, reorder, sidx,
                   lockOwner, lockCount, fstate, cb, out>>

\* the loop condition was false: finally: finished = True; return
GenExit ==
    /\ At(Main, "gen", "exit")
    /\ finished' = TRUE
    /\ stack' = Goto(Main, "done")
    /\ UNCHANGED <<notBuffer, prefetch, backlog, n, i, running, reorder, sidx,
                   lockOwner, lockCount, fstate, cb, out>>

\* --------------------------------------------- completion of a future
\* Future.set_result / set_exception on the completing thread: the state
\* changes, then the callbacks registered so far are invoked on this thread
\* (a callback added later runs on the thread that adds it).  The only
\* callback here is _finished, whose first statement waits for the lock, so
\* the state change and the call are one step.
Complete(k) ==
    /\ At(Worker(k), "set_result", "W0")
    /\ fstate[k] = "pending"
    /\ \E r \in {"ok", "fail"} : fstate' = [fstate EXCEPT ![k] = r]
    /\ IF cb[k] = "registered"
       THEN /\ cb' = [cb EXCEPT ![k] = "running"]
            /\ stack' = Call(Worker(k), "W2", Frame("_finished", "F0", k))
       ELSE /\ stack' = Goto(Worker(k), "W2")
            /\ UNCHANGED cb
    /\ UNCHANGED <<notBuffer, prefetch, backlog, n, i, finished, running, reorder, sidx,
                   lockOwner, lockCount, out>>

\* =================================================== close_when_needed
\* Source future k is completed by thread k+1; thread 0 iterates the
\* generator.  todo[t] is what thread t still has to run of the callbacks it
\* is invoking, as a sequence of <<operation, k>>.
Res == 0..(MaxRes - 1)
CwnThreads == 0..MaxRes

\* mutant: the resource is exited as soon as the derived future has it
AsCompletedCloses(k, state) ==
    IF state = "ok"
    THEN <<<<"enter_call", k>>, <<"enter_return", k>>, <<"set_result", k>>,
           <<"exit", k>>>>
    ELSE IF state = "fail" THEN <<<<"set_exception", k>>>>
    ELSE <<<<"raise", k>>>>

\* _as_completed(fut k): r = fut.result(); new_r = r.__enter__();
\* f.set_result(new_r)  -- or f.set_exception(e) when fut.result() raised an
\* Exception; any other exception ("abort": a BaseException that is not an
\* Exception) is not caught and leaves the callback
AsCompleted(k, state) ==
    IF state = "ok"
    THEN <<<<"enter_call", k>>, <<"enter_return", k>>, <<"set_result", k>>>>
    ELSE IF state = "fail" THEN <<<<"set_exception", k>>>>
    ELSE <<<<"raise", k>>>>

\* mutant: the test of f.exception() is inverted
DoCloseInverted(k, state) ==
    IF state = "fail" THEN <<<<"exit", k>>>> ELSE <<>>

\* _do_close(fut k): if f.exception() is None: f.result().__exit__(...)
DoClose(k, state) ==
    IF state = "ok" THEN <<<<"exit", k>>>> ELSE <<>>

RunCallback(name, k, state) ==
    IF name = "_as_completed" THEN AsCompleted(k, state) ELSE DoClose(k, state)

RECURSIVE RunCallbacks(_, _, _)
RunCallbacks(names, k, state) ==
    IF names = <<>> THEN <<>>
    ELSE RunCallback(Head(names), k, state) \o RunCallbacks(Tail(names), k, state)

\* fut.add_done_callback(fn) on thread t: kept for the completing thread
\* while fut is pending, run at once on t when fut is already done
AddDoneCallback(t, k, name) ==
    IF fut[k] = "pending"
    THEN /\ callbacks' = [callbacks EXCEPT ![k] = Append(@, name)]
         /\ UNCHANGED todo
    ELSE /\ todo' = [todo EXCEPT ![t] = @ \o RunCallback(name, k, fut[k])]
         /\ UNCHANGED callbacks

NextOp(t, op) == todo[t] # <<>> /\ Head(todo[t])[1] = op
OpArg(t) == Head(todo[t])[2]
OpDone(t) == todo' = [todo EXCEPT ![t] = Tail(@)]

\* for fut in future_iterable:   (pulling item cur creates future cur)
CwnFor ==
    /\ cwnPc = "for"
    /\ todo[Main] = <<>>
    /\ IF cur = srcLen
       THEN cwnPc' = "done" /\ UNCHANGED fut
       ELSE cwnPc' = "copy" /\ fut' = [fut EXCEPT ![cur] = "pending"]
    /\ UNCHANGED <<notClose, srcLen, cur, callbacks, todo, derived, entered,
                   exits, got, yielded>>

\* copy_future_and_run_cb_before(fut): f = Future();
\* fut.add_done_callback(_as_completed); return f
CwnCopy ==
    /\ cwnPc = "copy"
    /\ derived' = [derived EXCEPT ![cur] = "pending"]
    /\ AddDoneCallback(Main, cur, "_as_completed")
    /\ cwnPc' = "yield"
    /\ UNCHANGED <<notClose, srcLen, cur, fut, entered, exits, got, yielded>>

\* yield f
CwnYield ==
    /\ cwnPc = "yield"
    /\ todo[Main] = <<>>
    /\ yielded' = yielded + 1
    /\ cwnPc' = "suspended"
    /\ UNCHANGED <<notClose, srcLen, cur, fut, callbacks, todo, derived,
                   entered, exits, got>>

\* the consumer waits for the result of the element it was given last
CwnResult ==
    /\ cwnPc = "suspended"
    /\ derived[cur] = "ok"
    /\ cur \notin got
    /\ got' = got \cup {cur}
    /\ UNCHANGED <<notClose, srcLen, cwnPc, cur, fut, callbacks, todo,
                   derived, entered, exits, yielded>>

\* the consumer asks for the next element
CwnNext ==
    /\ cwnPc = "suspended"
    /\ cwnPc' = "close_fut"
    /\ UNCHANGED <<notClose, srcLen, cur, fut, callbacks, todo, derived,
                   entered, exits, got, yielded>>

\* the consumer drops the generator at the element it was given last
CwnAbandon ==
    /\ cwnPc = "suspended"
    /\ cwnPc' = "closed"
    /\ UNCHANGED <<notClose, srcLen, cur, fut, callbacks, todo, derived,
                   entered, exits, got, yielded>>

\* mutant: the previous future is never closed
CwnCloseFutSkipped ==
    /\ cwnPc = "close_fut"
    /\ cur' = cur + 1
    /\ cwnPc' = "for"
    /\ UNCHANGED <<notClose, srcLen, fut, callbacks, todo, derived, entered,
                   exits, got, yielded>>

\* mutant: close_fut(fut) is called twice
CwnCloseFutTwice ==
    /\ cwnPc = "close_fut"
    /\ IF fut[cur] = "pending"
       THEN /\ callbacks' = [callbacks EXCEPT ![cur] = @ \o <<"_do_close", "_do_close">>]
            /\ UNCHANGED todo
       ELSE /\ todo' = [todo EXCEPT ![Main] =
                          @ \o DoClose(cur, fut[cur]) \o DoClose(cur, fut[cur])]
            /\ UNCHANGED callbacks
    /\ cur' = cur + 1
    /\ cwnPc' = "for"
    /\ UNCHANGED <<notClose, srcLen, fut, derived, entered, exits, got, yielded>>

\* close_fut(fut): f.add_done_callback(_do_close)
CwnCloseFut ==
    /\ cwnPc = "close_fut"
    /\ AddDoneCallback(Main, cur, "_do_close")
    /\ cur' = cur + 1
    /\ cwnPc' = "for"
    /\ UNCHANGED <<notClose, srcLen, fut, derived, entered, exits, got, yielded>>

\* Future.set_result / set_exception of source future k on thread k+1: the
\* state changes; the callbacks registered so far are then invoked one by
\* one on this thread, in the order of their registration.
CwnComplete(k) ==
    /\ fut[k] = "pending"
    /\ \E r \in {"ok", "fail", "abort"} :
          /\ fut' = [fut EXCEPT ![k] = r]
          /\ todo' = [todo EXCEPT ![Worker(k)] = RunCallbacks(callbacks[k], k, r)]
    /\ UNCHANGED <<notClose, srcLen, cwnPc, cur, callbacks, derived, entered,
                   exits, got, yielded>>

\* r.__enter__() is called
EnterCall(t) ==
    /\ NextOp(t, "enter_call")
    /\ entered' = [entered EXCEPT ![OpArg(t)] = "running"]
    /\ OpDone(t)
    /\ UNCHANGED <<notClose, srcLen, cwnPc, cur, fut, callbacks, derived,
                   exits, got, yielded>>

\* r.__enter__() returns new_r
EnterReturn(t) ==
    /\ NextOp(t, "enter_return")
    /\ entered' = [entered EXCEPT ![OpArg(t)] = "yes"]
    /\ OpDone(t)
    /\ UNCHANGED <<notClose, srcLen, cwnPc, cur, fut, callbacks, derived,
                   exits, got, yielded>>

\* f.set_result(new_r)
SetResult(t) ==
    /\ NextOp(t, "set_result")
    /\ derived' = [derived EXCEPT ![OpArg(t)] = "ok"]
    /\ OpDone(t)
    /\ UNCHANGED <<notClose, srcLen, cwnPc, cur, fut, callbacks, entered,
                   exits, got, yielded>>

\* f.set_exception(e)
SetException(t) ==
    /\ NextOp(t, "set_exception")
    /\ derived' = [derived EXCEPT ![OpArg(t)] = "fail"]
    /\ OpDone(t)
    /\ UNCHANGED <<notClose, srcLen, cwnPc, cur, fut, callbacks, entered,
                   exits, got, yielded>>

\* fut.result() raises an exception that `except Exception` lets through:
\* Future runs its callbacks under `except Exception` too, so the exception
\* leaves set_exception / add_done_callback on the thread that runs them and
\* the callbacks behind this one are not called; out of add_done_callback
\* it leaves the generator's frame, which ends the generator
CallbackRaises(t) ==
    /\ NextOp(t, "raise")
    /\ todo' = [todo EXCEPT ![t] = <<>>]
    /\ cwnPc' = IF t = Main THEN "raised" ELSE cwnPc
    /\ UNCHANGED <<notClose, srcLen, cur, fut, callbacks, derived, entered,
                   exits, got, yielded>>

\* f.result().__exit__(None, None, None)
ExitCall(t) ==
    /\ NextOp(t, "exit")
    /\ exits' = [exits EXCEPT ![OpArg(t)] = @ + 1]
    /\ OpDone(t)
    /\ UNCHANGED <<notClose, srcLen, cwnPc, cur, fut, callbacks, derived,
                   entered, got, yielded>>

\* ================================================================ policy
\* Threads 1..NumPolThreads call into one _ManagedPolicy.  An environment
\* token (EnvironmentData) is numbered 1..MaxTokens; token e belongs to the
\* ManagedEnvironment e that new_environment returned for it.
PolThreads == 1..NumPolThreads
Tokens == 1..MaxTokens
None == 0
Error == 0 - 1

\* what a store slot can hold: nothing, or a reference to a token
NoRef == [kind |-> "none", tok |-> None]
Ref(e) == [kind |-> "weak", tok |-> e]

\* GlobalStore keeps one slot, ThreadLocalStore one slot per thread
SlotKeys == 0..NumPolThreads

\* mutant: every thread uses the one slot, whatever the store
SlotOfShared(t) == 0

SlotOf(t) == IF storeKind = "global" THEN 0 ELSE t
StoreGet(t) == slot[SlotOf(t)]
StoreSet(t, c) == [slot EXCEPT ![SlotOf(t)] = c]

\* EnvironmentPolicy.is_alive: created and not destroyed
IsAlive(e) == tok[e] = "alive"

\* calling a weak reference: None once the referent has been collected
Deref(c) ==
    IF c.kind = "none" THEN None
    ELSE IF tok[c.tok] = "collected" THEN None
    ELSE c.tok

\* the argument of a set_environment call, whether it was alive then, and
\* the thread that made the call (App before any call)
Passed(t, e) == [val |-> e, live |-> e # None /\ IsAlive(e), by |-> t]

\* tokens a caller can still hold and pass in
Passable == {e \in Tokens : tok[e] \in {"alive", "dead"}}

\* the most recent completed call: the calling thread (App for the
\* application's own calls), the operation, and what it returned (Error: it
\* raised)
App == 0
Emit(t, o, r) == last' = [t |-> t, env |-> None, op |-> o, ret |-> r]

\* the same for a call on managed environment h
EmitOn(t, h, o, r) == last' = [t |-> t, env |-> h, op |-> o, ret |-> r]

Idle(t) == ppc[t] = "idle"

\* captured by no wrapper yet
Unwrapped == 0 - 2

\* ======================================== ManagedEnvironment, in use
\* Environment.use() is the engine's: a context manager that makes the
\* environment current through the policy's set_environment and puts the
\* previous one back on exit.  Each thread keeps the blocks it is inside as a
\* stack of [prev, cur, kind, env]: what set_environment returned on entry,
\* whether that was the current environment then (a token that was alive),
\* what opened the block ("use": ManagedEnvironment.use; "call": a function
\* wrapped by keep_environment; "plain": the same with nothing captured), and
\* the managed environment it was opened on.
UseEntry(p, k, h) ==
    [prev |-> p, cur |-> IF p # None /\ IsAlive(p) THEN p ELSE None,
     kind |-> k, env |-> h]

InBlock(h) ==
    \E t \in PolThreads : \E j \in 1..Len(useStack[t]) :
       useStack[t][j].env = h

HeldPrevious(e) ==
    \E t \in PolThreads : \E j \in 1..Len(useStack[t]) :
       useStack[t][j].prev = e

\* a handle the application still holds
Held(h) == tok[h] # "unborn" /\ ~finalized[h]

\* ----------------------------------------------------- Policy, lifecycle
\* Policy.register -> on_policy_registered
Register ==
    /\ ~registered
    /\ registered' = TRUE
    /\ UNCHANGED <<notPolicy, polConf, slot, tok, local, mutex, ppc, arg,
                   prev, disposedH, destroyCount, last, lastSet,
                   disposeCalled>>

\* _ManagedPolicy.api
Api ==
    /\ Emit(App, "api", IF registered THEN None ELSE Error)
    /\ UNCHANGED <<notPolicy, registered, polConf, slot, tok, local, mutex,
                   ppc, arg, prev, disposedH, destroyCount, lastSet,
                   disposeCalled>>

\* Policy.unregister -> api.unregister_policy -> on_policy_cleared
Unregister ==
    /\ IF registered
       THEN /\ registered' = FALSE
            /\ Emit(App, "unregister", None)
       ELSE /\ registered' = registered
            /\ Emit(App, "unregister", Error)
    /\ UNCHANGED <<notPolicy, polConf, slot, tok, local, mutex, ppc, arg,
                   prev, disposedH, destroyCount, lastSet,
                   disposeCalled>>

\* a new_environment that also makes the new token current
NewEnvironmentCurrent ==
    /\ IF registered
       THEN \E e \in Tokens :
               /\ tok[e] = "unborn"
               /\ \A d \in Tokens : d < e => tok[d] # "unborn"
               /\ tok' = [tok EXCEPT ![e] = "alive"]
               /\ slot' = [k \in SlotKeys |-> Ref(e)]
               /\ Emit(App, "new_environment", e)
       ELSE /\ tok' = tok
            /\ slot' = slot
            /\ Emit(App, "new_environment", Error)
    /\ UNCHANGED <<notPolicy, registered, polConf, local, mutex, ppc,
                   arg, prev, disposedH, destroyCount, lastSet,
                   disposeCalled>>

\* Policy.new_environment
NewEnvironment ==
    /\ IF registered
       THEN \E e \in Tokens :
               /\ tok[e] = "unborn"
               /\ \A d \in Tokens : d < e => tok[d] # "unborn"
               /\ tok' = [tok EXCEPT ![e] = "alive"]
               /\ Emit(App, "new_environment", e)
       ELSE /\ tok' = tok
            /\ Emit(App, "new_environment", Error)
    /\ UNCHANGED <<notPolicy, registered, polConf, slot, local, mutex, ppc,
                   arg, prev, disposedH, destroyCount, lastSet,
                   disposeCalled>>

\* ----------------------------------------------------- ManagedEnvironment
\* a dispose that does not look at disposed first
DisposeAlways(t, h) ==
    /\ Idle(t)
    /\ Held(h)
    /\ disposeCalled' = [disposeCalled EXCEPT ![h] = TRUE]
    /\ local' = [local EXCEPT ![t] = None]
    /\ IF registered
       THEN /\ destroyCount' = [destroyCount EXCEPT ![h] = @ + 1]
            /\ tok' = [tok EXCEPT ![h] = IF @ = "alive" THEN "dead" ELSE @]
            /\ disposedH' = [disposedH EXCEPT ![h] = TRUE]
            /\ EmitOn(t, h, "dispose", None)
       ELSE /\ EmitOn(t, h, "dispose", Error)
            /\ UNCHANGED <<destroyCount, tok, disposedH>>
    /\ UNCHANGED <<notPolicy, registered, polConf, slot, mutex, ppc, arg,
                   prev, lastSet>>

\* ManagedEnvironment.dispose; self.core opens and closes an inline section
\* on the calling thread before the api is asked to destroy the token
Dispose(t, h) ==
    /\ Idle(t)
    /\ Held(h)
    /\ disposeCalled' = [disposeCalled EXCEPT ![h] = TRUE]
    /\ IF disposedH[h]
       THEN /\ EmitOn(t, h, "dispose", None)
            /\ UNCHANGED <<local, destroyCount, tok, disposedH>>
       ELSE /\ local' = [local EXCEPT ![t] = None]
            /\ IF registered
               THEN /\ destroyCount' = [destroyCount EXCEPT ![h] = @ + 1]
                    /\ tok' = [tok EXCEPT ![h] = "dead"]
                    /\ disposedH' = [disposedH EXCEPT ![h] = TRUE]
                    /\ EmitOn(t, h, "dispose", None)
               ELSE /\ EmitOn(t, h, "dispose", Error)
                    /\ UNCHANGED <<destroyCount, tok, disposedH>>
    /\ UNCHANGED <<notPolicy, registered, polConf, slot, mutex, ppc, arg,
                   prev, lastSet>>

\* the collector frees a destroyed token nobody holds any more
Collect(e) ==
    /\ tok[e] = "dead"
    /\ \A t \in PolThreads : local[t] # e /\ arg[t] # e
    /\ ~HeldPrevious(e)
    /\ tok' = [tok EXCEPT ![e] = "collected"]
    /\ UNCHANGED <<notPolicy, registered, polConf, slot, local, mutex, ppc,
                   arg, prev, disposedH, destroyCount, last, lastSet,
                   disposeCalled>>

\* ------------------------------------------------------- inline sections
\* an override every thread would see
OverrideShared(t) ==
    IF \E u \in PolThreads : local[u] # None
    THEN local[CHOOSE u \in PolThreads : local[u] # None]
    ELSE None

\* getattr(self._local, "environment", None): the calling thread's own
Override(t) == local[t]

OverrideAlive(t) == Override(t) # None /\ IsAlive(Override(t))

\* _ManagedPolicy.inline_section_start
InlineStart(t, e) ==
    /\ Idle(t)
    /\ e \in Passable
    /\ local' = [local EXCEPT ![t] = e]
    /\ Emit(t, "inline_section_start", None)
    /\ UNCHANGED <<notPolicy, registered, polConf, slot, tok, mutex, ppc,
                   arg, prev, disposedH, destroyCount, lastSet,
                   disposeCalled>>

\* _ManagedPolicy.inline_section_end: del self._local.environment, which
\* raises AttributeError when the thread has no override
InlineEnd(t) ==
    /\ Idle(t)
    /\ local' = [local EXCEPT ![t] = None]
    /\ Emit(t, "inline_section_end", IF local[t] = None THEN Error ELSE None)
    /\ UNCHANGED <<notPolicy, registered, polConf, slot, tok, mutex, ppc,
                   arg, prev, disposedH, destroyCount, lastSet,
                   disposeCalled>>

\* ------------------------------------------------ get_current_environment
\* the fast path: a live override is returned at once
GetFast(t) ==
    /\ Idle(t)
    /\ OverrideAlive(t)
    /\ Emit(t, "get", Override(t))
    /\ UNCHANGED <<notPolicy, registered, polConf, slot, tok, local, mutex,
                   ppc, arg, prev, disposedH, destroyCount, lastSet,
                   disposeCalled>>

\* a store path taken whatever the override is
GetLockAlways(t) ==
    /\ Idle(t)
    /\ mutex = None
    /\ mutex' = t
    /\ prev' = [prev EXCEPT ![t] = StoreGet(t)]
    /\ ppc' = [ppc EXCEPT ![t] = "g_check"]
    /\ UNCHANGED <<notPolicy, registered, polConf, slot, tok, local, arg,
                   disposedH, destroyCount, last, lastSet,
                   disposeCalled>>

\* with self._mutex: current_environment = store.get_current_environment()
GetLock(t) ==
    /\ Idle(t)
    /\ ~OverrideAlive(t)
    /\ mutex = None
    /\ mutex' = t
    /\ prev' = [prev EXCEPT ![t] = StoreGet(t)]
    /\ ppc' = [ppc EXCEPT ![t] = "g_check"]
    /\ UNCHANGED <<notPolicy, registered, polConf, slot, tok, local, arg,
                   disposedH, destroyCount, last, lastSet,
                   disposeCalled>>

\* a check that answers None for a dead token and leaves the store as it is
GetCheckNoClear(t) ==
    /\ ppc[t] = "g_check"
    /\ Emit(t, "get", IF Deref(prev[t]) # None /\ IsAlive(Deref(prev[t]))
            THEN Deref(prev[t]) ELSE None)
    /\ mutex' = None
    /\ prev' = [prev EXCEPT ![t] = NoRef]
    /\ ppc' = [ppc EXCEPT ![t] = "idle"]
    /\ UNCHANGED <<notPolicy, registered, polConf, slot, tok, local, arg,
                   disposedH, destroyCount, lastSet, disposeCalled>>

\* the rest of the with block: nothing stored, referent collected, token
\* dead, or the token itself
GetCheck(t) ==
    /\ ppc[t] = "g_check"
    /\ IF prev[t] = NoRef
       THEN /\ slot' = slot
            /\ Emit(t, "get", None)
       ELSE IF Deref(prev[t]) = None
       THEN /\ slot' = StoreSet(t, NoRef)
            /\ Emit(t, "get", None)
       ELSE IF ~IsAlive(Deref(prev[t]))
       THEN /\ slot' = StoreSet(t, NoRef)
            /\ Emit(t, "get", None)
       ELSE /\ slot' = slot
            /\ Emit(t, "get", Deref(prev[t]))
    /\ mutex' = None
    /\ prev' = [prev EXCEPT ![t] = NoRef]
    /\ ppc' = [ppc EXCEPT ![t] = "idle"]
    /\ UNCHANGED <<notPolicy, registered, polConf, tok, local, arg,
                   disposedH, destroyCount, lastSet, disposeCalled>>

\* --------------------------------------------------------- set_environment
\* entering the with block without waiting for the mutex
SetLockNoMutex(t, e) ==
    /\ Idle(t)
    /\ e \in {None} \cup Passable
    /\ mutex' = t
    /\ arg' = [arg EXCEPT ![t] = e]
    /\ prev' = [prev EXCEPT ![t] = StoreGet(t)]
    /\ ppc' = [ppc EXCEPT ![t] = "s_write"]
    /\ UNCHANGED <<notPolicy, registered, polConf, slot, tok, local,
                   disposedH, destroyCount, last, lastSet, disposeCalled>>

\* with self._mutex: previous_environment = store.get_current_environment()
SetLock(t, e) ==
    /\ Idle(t)
    /\ e \in {None} \cup Passable
    /\ mutex = None
    /\ mutex' = t
    /\ arg' = [arg EXCEPT ![t] = e]
    /\ prev' = [prev EXCEPT ![t] = StoreGet(t)]
    /\ ppc' = [ppc EXCEPT ![t] = "s_write"]
    /\ UNCHANGED <<notPolicy, registered, polConf, slot, tok, local,
                   disposedH, destroyCount, last, lastSet, disposeCalled>>

\* a store that keeps nothing
StoredNothing(e) == NoRef

\* a store without the liveness check
StoredNoLiveness(e) == IF e = None THEN NoRef ELSE Ref(e)

\* a store that keeps the token itself
StoredStrong(e) ==
    IF e # None /\ ~IsAlive(e) THEN NoRef
    ELSE IF e = None THEN NoRef
    ELSE [kind |-> "strong", tok |-> e]

\* what set_environment puts into the store for its argument
Stored(e) ==
    IF e # None /\ ~IsAlive(e) THEN NoRef
    ELSE IF e = None THEN NoRef
    ELSE Ref(e)

\* a result read from what has just been stored
PreviousReread(t) == Deref(Stored(arg[t]))

\* return previous_environment() if there was one, else None
Previous(t) == IF prev[t] # NoRef THEN Deref(prev[t]) ELSE None

\* the rest of the with block: the liveness check, the write, the result
SetDone(t) ==
    /\ ppc[t] = "s_write"
    /\ slot' = StoreSet(t, Stored(arg[t]))
    /\ lastSet' = [lastSet EXCEPT ![SlotOf(t)] = Passed(t, arg[t])]
    /\ Emit(t, "set", Previous(t))
    /\ mutex' = None
    /\ arg' = [arg EXCEPT ![t] = None]
    /\ prev' = [prev EXCEPT ![t] = NoRef]
    /\ ppc' = [ppc EXCEPT ![t] = "idle"]
    /\ UNCHANGED <<notPolicy, registered, polConf, tok, local, disposedH,
                   destroyCount, disposeCalled>>

\* one whole set_environment(e) made by the engine on thread t
SetCurrent(t, e) ==
    /\ slot' = StoreSet(t, Stored(e))
    /\ lastSet' = [lastSet EXCEPT ![SlotOf(t)] = Passed(t, e)]

\* what Environment.use().__enter__() can do for token h: it refuses an
\* environment whose data has been collected, and for one that is destroyed
\* but not collected it either refuses or hands the token to set_environment
CanEnter(h) == tok[h] \in {"alive", "dead"}
CanRefuse(h) == tok[h] \in {"dead", "collected"}

\* with self._environment.use(): entering the block
UseEnter(t, h) ==
    /\ Idle(t) /\ mutex = None
    /\ Held(h)
    /\ Len(useStack[t]) < MaxUseDepth
    /\ \/ /\ CanEnter(h)
          /\ SetCurrent(t, h)
          /\ useStack' = [useStack EXCEPT
                ![t] = Append(@, UseEntry(Deref(StoreGet(t)), "use", h))]
          /\ EmitOn(t, h, "use", None)
       \/ /\ CanRefuse(h)
          /\ EmitOn(t, h, "use", Error)
          /\ UNCHANGED <<slot, lastSet, useStack>>
    /\ UNCHANGED <<notManaged, registered, polConf, tok, local, mutex, ppc,
                   arg, prev, disposedH, destroyCount, disposeCalled,
                   finalized, warned, captured>>

\* a block exit that leaves the store as the block made it
UseExitKeeps(t) ==
    /\ Idle(t) /\ mutex = None
    /\ useStack[t] # <<>>
    /\ useStack[t][Len(useStack[t])].kind = "use"
    /\ useStack' = [useStack EXCEPT ![t] = SubSeq(@, 1, Len(@) - 1)]
    /\ EmitOn(t, useStack[t][Len(useStack[t])].env, "use_exit", None)
    /\ UNCHANGED <<notManaged, registered, polConf, slot, lastSet, tok, local,
                   mutex, ppc, arg, prev, disposedH, destroyCount,
                   disposeCalled, finalized, warned, captured>>

\* leaving the block: the engine sets the environment it found on entry
UseExit(t) ==
    /\ Idle(t) /\ mutex = None
    /\ useStack[t] # <<>>
    /\ useStack[t][Len(useStack[t])].kind = "use"
    /\ SetCurrent(t, useStack[t][Len(useStack[t])].prev)
    /\ useStack' = [useStack EXCEPT ![t] = SubSeq(@, 1, Len(@) - 1)]
    /\ EmitOn(t, useStack[t][Len(useStack[t])].env, "use_exit", None)
    /\ UNCHANGED <<notManaged, registered, polConf, tok, local, mutex, ppc,
                   arg, prev, disposedH, destroyCount, disposeCalled,
                   finalized, warned, captured>>

\* a switch that keeps what was current, as use does
SwitchRemembers(t, h) ==
    /\ Idle(t) /\ mutex = None
    /\ Held(h)
    /\ Len(useStack[t]) < MaxUseDepth
    /\ \/ /\ CanEnter(h)
          /\ SetCurrent(t, h)
          /\ useStack' = [useStack EXCEPT
                ![t] = Append(@, UseEntry(Deref(StoreGet(t)), "use", h))]
          /\ EmitOn(t, h, "switch", None)
       \/ /\ CanRefuse(h)
          /\ EmitOn(t, h, "switch", Error)
          /\ UNCHANGED <<slot, lastSet, useStack>>
    /\ UNCHANGED <<notManaged, registered, polConf, tok, local, mutex, ppc,
                   arg, prev, disposedH, destroyCount, disposeCalled,
                   finalized, warned, captured>>

\* ManagedEnvironment.switch: the block is entered and never left
Switch(t, h) ==
    /\ Idle(t) /\ mutex = None
    /\ Held(h)
    /\ \/ /\ CanEnter(h)
          /\ SetCurrent(t, h)
          /\ EmitOn(t, h, "switch", None)
       \/ /\ CanRefuse(h)
          /\ EmitOn(t, h, "switch", Error)
          /\ UNCHANGED <<slot, lastSet>>
    /\ UNCHANGED <<notManaged, registered, polConf, tok, local, mutex, ppc,
                   arg, prev, disposedH, destroyCount, disposeCalled,
                   finalized, warned, useStack, captured>>

\* ManagedEnvironment.inline_section, entering: self._data is gone once the
\* environment is disposed
EnvInline(t, h) ==
    /\ Idle(t)
    /\ Held(h)
    /\ IF disposedH[h]
       THEN /\ EmitOn(t, h, "inline_section", Error)
            /\ local' = local
       ELSE /\ EmitOn(t, h, "inline_section", None)
            /\ local' = [local EXCEPT ![t] = h]
    /\ UNCHANGED <<notManaged, registered, polConf, slot, tok, mutex, ppc,
                   arg, prev, disposedH, destroyCount, lastSet,
                   disposeCalled, envVars>>

\* ManagedEnvironment.core and .outputs: an inline section around one read
EnvProperty(t, h, name) ==
    /\ Idle(t)
    /\ Held(h)
    /\ IF disposedH[h]
       THEN /\ EmitOn(t, h, name, Error)
            /\ local' = local
       ELSE /\ EmitOn(t, h, name, h)
            /\ local' = [local EXCEPT ![t] = None]
    /\ UNCHANGED <<notManaged, registered, polConf, slot, tok, mutex, ppc,
                   arg, prev, disposedH, destroyCount, lastSet,
                   disposeCalled, envVars>>

\* `with env.inline_section():` entered, the block kept on the thread's stack
\* of open blocks: inline_section_start(self._data), then the yield
SectionEnter(t, h) ==
    /\ Idle(t)
    /\ Held(h)
    /\ Len(useStack[t]) < MaxUseDepth
    /\ IF disposedH[h]
       THEN /\ EmitOn(t, h, "inline_section", Error)
            /\ UNCHANGED <<local, useStack>>
       ELSE /\ EmitOn(t, h, "inline_section", None)
            /\ local' = [local EXCEPT ![t] = h]
            /\ useStack' = [useStack EXCEPT
                  ![t] = Append(@, UseEntry(None, "inline", h))]
    /\ UNCHANGED <<notManaged, registered, polConf, slot, tok, mutex, ppc,
                   arg, prev, disposedH, destroyCount, lastSet,
                   disposeCalled, finalized, warned, captured>>

\* mutant: leaving a section puts back the override of the section around it
SectionExitRestores(t) ==
    /\ Idle(t)
    /\ useStack[t] # <<>>
    /\ useStack[t][Len(useStack[t])].kind = "inline"
    /\ local' = [local EXCEPT
          ![t] = IF Len(useStack[t]) > 1
                 THEN useStack[t][Len(useStack[t]) - 1].env ELSE None]
    /\ useStack' = [useStack EXCEPT ![t] = SubSeq(@, 1, Len(@) - 1)]
    /\ EmitOn(t, useStack[t][Len(useStack[t])].env, "inline_section_exit", None)
    /\ UNCHANGED <<notManaged, registered, polConf, slot, tok, mutex, ppc,
                   arg, prev, disposedH, destroyCount, lastSet,
                   disposeCalled, finalized, warned, captured>>

\* the block is left: finally: inline_section_end(), which is
\* del self._local.environment and raises when the thread has no override
SectionExit(t) ==
    /\ Idle(t)
    /\ useStack[t] # <<>>
    /\ useStack[t][Len(useStack[t])].kind = "inline"
    /\ local' = [local EXCEPT ![t] = None]
    /\ useStack' = [useStack EXCEPT ![t] = SubSeq(@, 1, Len(@) - 1)]
    /\ EmitOn(t, useStack[t][Len(useStack[t])].env, "inline_section_exit",
              IF local[t] = None THEN Error ELSE None)
    /\ UNCHANGED <<notManaged, registered, polConf, slot, tok, mutex, ppc,
                   arg, prev, disposedH, destroyCount, lastSet,
                   disposeCalled, finalized, warned, captured>>

\* ManagedEnvironment.vs_environment
VsEnvironment(t, h) ==
    /\ Idle(t)
    /\ Held(h)
    /\ EmitOn(t, h, "vs_environment", h)
    /\ UNCHANGED <<notManaged, registered, polConf, slot, tok, local, mutex,
                   ppc, arg, prev, disposedH, destroyCount, lastSet,
                   disposeCalled, envVars>>

\* a finalizer that warns whether or not the environment was disposed
FinalizeLoud(t, h) ==
    /\ Idle(t)
    /\ Held(h)
    /\ ~InBlock(h)
    /\ finalized' = [finalized EXCEPT ![h] = TRUE]
    /\ warned' = [warned EXCEPT ![h] = TRUE]
    /\ IF disposedH[h]
       THEN /\ EmitOn(t, h, "del", None)
            /\ UNCHANGED <<local, destroyCount, tok, disposedH>>
       ELSE /\ local' = [local EXCEPT ![t] = None]
            /\ IF registered
               THEN /\ destroyCount' = [destroyCount EXCEPT ![h] = @ + 1]
                    /\ tok' = [tok EXCEPT ![h] = "dead"]
                    /\ disposedH' = [disposedH EXCEPT ![h] = TRUE]
                    /\ EmitOn(t, h, "del", None)
               ELSE /\ EmitOn(t, h, "del", Error)
                    /\ UNCHANGED <<destroyCount, tok, disposedH>>
    /\ UNCHANGED <<notManaged, registered, polConf, slot, mutex, ppc, arg,
                   prev, lastSet, disposeCalled, useStack, captured>>

\* ManagedEnvironment.__del__, run by the collector on some thread once the
\* application holds the environment no longer: nothing if it is disposed,
\* else the warning and then dispose(), whose error the interpreter swallows
Finalize(t, h) ==
    /\ Idle(t)
    /\ Held(h)
    /\ ~InBlock(h)
    /\ finalized' = [finalized EXCEPT ![h] = TRUE]
    /\ IF disposedH[h]
       THEN /\ EmitOn(t, h, "del", None)
            /\ UNCHANGED <<warned, local, destroyCount, tok, disposedH>>
       ELSE /\ warned' = [warned EXCEPT ![h] = TRUE]
            /\ local' = [local EXCEPT ![t] = None]
            /\ IF registered
               THEN /\ destroyCount' = [destroyCount EXCEPT ![h] = @ + 1]
                    /\ tok' = [tok EXCEPT ![h] = "dead"]
                    /\ disposedH' = [disposedH EXCEPT ![h] = TRUE]
                    /\ EmitOn(t, h, "del", None)
               ELSE /\ EmitOn(t, h, "del", Error)
                    /\ UNCHANGED <<destroyCount, tok, disposedH>>
    /\ UNCHANGED <<notManaged, registered, polConf, slot, mutex, ppc, arg,
                   prev, lastSet, disposeCalled, useStack, captured>>

\* ------------------------------------------------ loops.keep_environment
\* what the engine's get_current_environment finds for thread t: the policy's
\* answer, a live override first
CurrentOf(t) ==
    IF OverrideAlive(t) THEN Override(t)
    ELSE IF Deref(StoreGet(t)) # None /\ IsAlive(Deref(StoreGet(t)))
    THEN Deref(StoreGet(t))
    ELSE None

\* keep_environment(func): the current environment's use is captured, or
\* _noop when the engine raises for want of one; the policy's get clears a
\* slot whose token is gone
Wrap(t) ==
    /\ Idle(t) /\ mutex = None
    /\ captured' = CurrentOf(t)
    /\ slot' = IF ~OverrideAlive(t) /\ CurrentOf(t) = None
               THEN StoreSet(t, NoRef) ELSE slot
    /\ Emit(t, "wrap", CurrentOf(t))
    /\ UNCHANGED <<notManaged, registered, polConf, tok, local, mutex, ppc,
                   arg, prev, disposedH, destroyCount, lastSet,
                   disposeCalled, finalized, warned, useStack>>

\* a wrapper that calls the function as it is
CallEnterBare(u) ==
    /\ Idle(u) /\ mutex = None
    /\ captured # Unwrapped
    /\ Len(useStack[u]) < MaxCallDepth
    /\ useStack' = [useStack EXCEPT
          ![u] = Append(@, UseEntry(None, "plain", None))]
    /\ Emit(u, "call", None)
    /\ UNCHANGED <<notManaged, registered, polConf, slot, lastSet, tok, local,
                   mutex, ppc, arg, prev, disposedH, destroyCount,
                   disposeCalled, finalized, warned, captured>>

\* _wrapper on thread u, up to the call of func: with environment()
CallEnter(u) ==
    /\ Idle(u) /\ mutex = None
    /\ captured # Unwrapped
    /\ Len(useStack[u]) < MaxCallDepth
    /\ IF captured = None
       THEN /\ useStack' = [useStack EXCEPT
                  ![u] = Append(@, UseEntry(None, "plain", None))]
            /\ Emit(u, "call", None)
            /\ UNCHANGED <<slot, lastSet>>
       ELSE \/ /\ CanEnter(captured)
               /\ SetCurrent(u, captured)
               /\ useStack' = [useStack EXCEPT
                     ![u] = Append(@, UseEntry(Deref(StoreGet(u)), "call",
                                               None))]
               /\ Emit(u, "call", None)
            \/ /\ CanRefuse(captured)
               /\ Emit(u, "call", Error)
               /\ UNCHANGED <<slot, lastSet, useStack>>
    /\ UNCHANGED <<notManaged, registered, polConf, tok, local, mutex, ppc,
                   arg, prev, disposedH, destroyCount, disposeCalled,
                   finalized, warned, captured>>

\* func has returned: the with block of _wrapper is left
CallReturn(u) ==
    /\ Idle(u) /\ mutex = None
    /\ useStack[u] # <<>>
    /\ useStack[u][Len(useStack[u])].kind \in {"call", "plain"}
    /\ IF useStack[u][Len(useStack[u])].kind = "call"
       THEN SetCurrent(u, useStack[u][Len(useStack[u])].prev)
       ELSE UNCHANGED <<slot, lastSet>>
    /\ useStack' = [useStack EXCEPT ![u] = SubSeq(@, 1, Len(@) - 1)]
    /\ Emit(u, "call_return", None)
    /\ UNCHANGED <<notManaged, registered, polConf, tok, local, mutex, ppc,
                   arg, prev, disposedH, destroyCount, disposeCalled,
                   finalized, warned, captured>>

\* no managed environment in use, nothing wrapped
ManagedIdle ==
    /\ finalized = [e \in Tokens |-> FALSE]
    /\ warned = [e \in Tokens |-> FALSE]
    /\ useStack = [t \in PolThreads |-> <<>>]
    /\ captured = Unwrapped

\* ================================================================= loops
\* Loop 0 is NO_LOOP; loops 1..MaxLoops are event loops of the application,
\* each an EventLoop whose from_thread either queues the call for a later
\* tick of the loop or runs it at once, as the interface allows.
Loops == 0..MaxLoops
NoLoop == 0
DispatchKinds == {"queue", "inline"}

\* the most recent completed call of the loops module, with the attach and
\* detach calls it made and the loop that was current before it
LoopEvent(o, a, r, c) ==
    [op |-> o, arg |-> a, ret |-> r, calls |-> c, before |-> currentLoop]

LoopCall(c, l) == [call |-> c, loop |-> l]

\* a set_loop that goes back to the previous loop when attach raises
SetLoopReverts(l, detachRaises, attachRaises) ==
    /\ IF detachRaises /\ currentLoop # NoLoop
       THEN /\ loopLog' = LoopEvent("set_loop", l, Error,
                              <<LoopCall("detach", currentLoop)>>)
            /\ UNCHANGED <<currentLoop, attachedL>>
       ELSE IF attachRaises /\ l # NoLoop
       THEN /\ currentLoop' = currentLoop
            /\ attachedL' = attachedL \ {currentLoop}
            /\ loopLog' = LoopEvent("set_loop", l, Error,
                              <<LoopCall("detach", currentLoop),
                                LoopCall("attach", l)>>)
       ELSE /\ currentLoop' = l
            /\ attachedL' = (attachedL \ {currentLoop}) \cup {l}
            /\ loopLog' = LoopEvent("set_loop", l, None,
                              <<LoopCall("detach", currentLoop),
                                LoopCall("attach", l)>>)
    /\ UNCHANGED <<notLoops, loopKind, cycles>>

\* set_loop(l); attach and detach of an application's loop may raise
SetLoop(l, detachRaises, attachRaises) ==
    /\ IF detachRaises /\ currentLoop # NoLoop
       THEN /\ loopLog' = LoopEvent("set_loop", l, Error,
                              <<LoopCall("detach", currentLoop)>>)
            /\ UNCHANGED <<currentLoop, attachedL>>
       ELSE IF attachRaises /\ l # NoLoop
       THEN /\ currentLoop' = NoLoop
            /\ attachedL' = attachedL \ {currentLoop}
            /\ loopLog' = LoopEvent("set_loop", l, Error,
                              <<LoopCall("detach", currentLoop),
                                LoopCall("attach", l)>>)
       ELSE /\ currentLoop' = l
            /\ attachedL' = (attachedL \ {currentLoop}) \cup {l}
            /\ loopLog' = LoopEvent("set_loop", l, None,
                              <<LoopCall("detach", currentLoop),
                                LoopCall("attach", l)>>)
    /\ UNCHANGED <<notLoops, loopKind, cycles>>

\* get_loop()
GetLoop ==
    /\ loopLog' = LoopEvent("get_loop", NoLoop, currentLoop, <<>>)
    /\ UNCHANGED <<notLoops, currentLoop, loopKind, attachedL, cycles>>

\* how loop l runs a function given to its from_thread
Dispatch(l) == IF l = NoLoop THEN "inline" ELSE loopKind[l]

\* the future get_loop().next_cycle() returns: DONE from NO_LOOP, else a new
\* future whose set_result has been given to the loop's from_thread
CycleFuture(l) ==
    [loop |-> l,
     atReturn |-> IF l = NoLoop \/ Dispatch(l) = "inline"
                  THEN "resolved" ELSE "pending",
     state |-> IF l = NoLoop \/ Dispatch(l) = "inline"
               THEN "resolved" ELSE "pending"]

\* get_loop().next_cycle()
NextCycle ==
    /\ Len(cycles) < MaxCycles
    /\ cycles' = Append(cycles, CycleFuture(currentLoop))
    /\ loopLog' = LoopEvent("next_cycle", NoLoop, None, <<>>)
    /\ UNCHANGED <<notLoops, currentLoop, loopKind, attachedL>>

\* a loop reaches the call queued for future k and runs it
LoopTick(k) ==
    /\ k \in 1..Len(cycles)
    /\ cycles[k].state = "pending"
    /\ \A j \in 1..(k - 1) :
          cycles[j].loop = cycles[k].loop => cycles[j].state = "resolved"
    /\ cycles' = [cycles EXCEPT ![k].state = "resolved"]
    /\ UNCHANGED <<notLoops, currentLoop, loopKind, attachedL, loopLog>>

\* the module as imported: NO_LOOP current, nothing called
LoopsFresh ==
    /\ currentLoop = NoLoop
    /\ attachedL = {}
    /\ cycles = <<>>
    /\ loopLog = [op |-> "none", arg |-> NoLoop, ret |-> None,
                  calls |-> <<>>, before |-> NoLoop]

LoopsIdle == LoopsFresh /\ loopKind = [l \in 1..MaxLoops |-> "queue"]

\* ================================================================ frames
\* video.frames hands out the frames of a clip of n frames, through
\* buffer_futures unless the caller's backlog is an integer <= 0.  rawPrefetch
\* and rawBacklog are the arguments as the caller gave them (rawBacklog <<>>
\* for None); mode says what serves the consumer: "called" (buffer_futures
\* called, its body not yet started), "pipeline" or "direct".

\* frames: if backlog is None or backlog > 0
UsesPipeline(b) == b = <<>> \/ b[1] > 0

\* the application calls buffer_futures again, with its own arguments
BufferFuturesCall(p, b) ==
    /\ mode = "pipeline"
    /\ rawPrefetch' = p
    /\ rawBacklog' = b
    /\ mode' = "called"
    /\ UNCHANGED <<notFrames, bufVars, requested, started>>

\* buffer_futures, the first lines of its body: the arguments normalised
Normalise ==
    /\ mode = "called"
    /\ prefetch' = NormPrefetch(rawPrefetch)
    /\ backlog' = NormBacklog(rawPrefetch, rawBacklog)
    /\ mode' = "pipeline"
    /\ UNCHANGED <<notFrames, n, i, finished, running, reorder, sidx,
                   lockOwner, lockCount, stack, fstate, cb, out,
                   rawPrefetch, rawBacklog, requested, started>>

\* the consumer asks the bare generator expression for its next element
DirectRequest ==
    /\ mode = "direct"
    /\ requested = started
    /\ requested <= n
    /\ requested' = requested + 1
    /\ UNCHANGED <<notFrames, bufVars, rawPrefetch, rawBacklog, mode,
                   started>>

\* a generator that starts the frame after the one asked for as well
DirectStartAhead ==
    /\ mode = "direct"
    /\ started < n
    /\ started <= requested
    /\ started' = started + 1
    /\ UNCHANGED <<notFrames, bufVars, rawPrefetch, rawBacklog, mode,
                   requested>>

\* (frame(node, n, env) for n in range(length)): the request for frame
\* `started` is made and its future handed to the consumer
DirectStart ==
    /\ mode = "direct"
    /\ started < n
    /\ started < requested
    /\ started' = started + 1
    /\ UNCHANGED <<notFrames, bufVars, rawPrefetch, rawBacklog, mode,
                   requested>>

\* ================================================================ render
\* Frames are numbered from 1, as render numbers them; 0 is the y4m header.
\* frameFut[k] is the future of the request for frame k that frames() hands
\* to render, paired[k] the number in the pair that the future handed to the
\* consumer for frame k has resolved to, handed the futures handed out.
FrameNos == 1..MaxFrames
NotYet == 0 - 1

\* render_single_frame(frame): return current_frame, b"".join(buf)
\* (the number is read from render's variable when the function runs)
RenderSingleFrame == currentFrame

\* first next() with y4m: yield UnifiedFuture.resolve((0, header))
RenderHeader ==
    /\ renderPc = "start"
    /\ y4m
    /\ paired' = [paired EXCEPT ![0] = 0]
    /\ handed' = Append(handed, 0)
    /\ renderPc' = "header"
    /\ UNCHANGED <<notRender, y4m, frameCount, currentFrame, frameFut>>

\* next(): the for loop takes the next future of frames(), which requests
\* the frame; current_frame = frame; yield ...map(render_single_frame)
RenderPull ==
    /\ \/ renderPc \in {"header", "suspended"}
       \/ renderPc = "start" /\ ~y4m
    /\ IF currentFrame < frameCount
       THEN /\ currentFrame' = currentFrame + 1
            /\ frameFut' = [frameFut EXCEPT ![currentFrame + 1] = "pending"]
            /\ handed' = Append(handed, currentFrame + 1)
            /\ renderPc' = "suspended"
       ELSE /\ renderPc' = "done"
            /\ UNCHANGED <<currentFrame, frameFut, handed>>
    /\ UNCHANGED <<notRender, y4m, frameCount, paired>>

\* the engine delivers frame k: its future resolves and the function given
\* to map() is run with the frame
FrameResolves(k) ==
    /\ frameFut[k] = "pending"
    /\ frameFut' = [frameFut EXCEPT ![k] = "done"]
    /\ paired' = [paired EXCEPT ![k] = RenderSingleFrame]
    /\ UNCHANGED <<notRender, y4m, frameCount, renderPc, currentFrame, handed>>

RenderFresh ==
    /\ currentFrame = 0
    /\ frameFut = [k \in FrameNos |-> "unborn"]
    /\ paired = [k \in 0..MaxFrames |-> NotYet]
    /\ handed = <<>>

\* render not called
RenderIdle ==
    /\ RenderFresh
    /\ y4m = FALSE
    /\ frameCount = 0
    /\ renderPc = "idle"

\* nothing called
FramesIdle ==
    /\ rawPrefetch = 0
    /\ rawBacklog = <<>>
    /\ mode = "idle"
    /\ requested = 0
    /\ started = 0

\* a policy nobody uses
PolicyIdle ==
    /\ ManagedIdle
    /\ callers = {}
    /\ registered = FALSE
    /\ storeKind = "global"
    /\ slot = [k \in SlotKeys |-> NoRef]
    /\ tok = [e \in Tokens |-> "unborn"]
    /\ local = [t \in PolThreads |-> None]
    /\ mutex = None
    /\ ppc = [t \in PolThreads |-> "idle"]
    /\ arg = [t \in PolThreads |-> None]
    /\ prev = [t \in PolThreads |-> NoRef]
    /\ disposedH = [e \in Tokens |-> FALSE]
    /\ destroyCount = [e \in Tokens |-> 0]
    /\ last = [t |-> App, env |-> None, op |-> "none", ret |-> None]
    /\ lastSet = [k \in SlotKeys |-> Passed(App, None)]
    /\ disposeCalled = [e \in Tokens |-> FALSE]

\* ------------------------------------------------------- specification
\* a pipeline that is not running: nothing created, nothing to do
BufferIdle ==
    /\ prefetch = 0 /\ backlog = 0 /\ n = 0 /\ i = 0
    /\ finished = FALSE /\ running = 0 /\ reorder = {} /\ sidx = 0
    /\ lockOwner = NoThread /\ lockCount = 0
    /\ stack = [t \in Threads |-> <<>>]
    /\ fstate = [k \in Items |-> "unborn"]
    /\ cb = [k \in Items |-> "none"]
    /\ out = <<>>

CloseFresh ==
    /\ cur = 0
    /\ fut = [k \in Res |-> "unborn"]
    /\ callbacks = [k \in Res |-> <<>>]
    /\ todo = [t \in CwnThreads |-> <<>>]
    /\ derived = [k \in Res |-> "none"]
    /\ entered = [k \in Res |-> "no"]
    /\ exits = [k \in Res |-> 0]
    /\ got = {}
    /\ yielded = 0

CloseIdle == CloseFresh /\ srcLen = 0 /\ cwnPc = "idle"

InitBuffer ==
    /\ RenderIdle
    /\ CloseIdle
    /\ PolicyIdle
    /\ LoopsIdle
    /\ FramesIdle
    /\ \E p \in RawPrefetch, b \in RawBacklog :
          /\ prefetch = NormPrefetch(p)
          /\ backlog = NormBacklog(p, b)
    /\ n \in 0..MaxItems
    /\ i = 0
    /\ finished = FALSE
    /\ running = 0
    /\ reorder = {}
    /\ sidx = 0
    /\ lockOwner = NoThread
    /\ lockCount = 0
    /\ stack = [t \in Threads |->
                  IF t = Main THEN <<Frame("gen", "start", 0 - 1)>>
                  ELSE <<Frame("set_result", "W0", t - 1)>>]
    /\ fstate = [k \in Items |-> "unborn"]
    /\ cb = [k \in Items |-> "none"]
    /\ out = <<>>

NextBuffer ==
    \/ GenStart
    \/ GenLoopFinished
    \/ GenLoopReorder
    \/ GenLoopRunning
    \/ GenSpinCheck
    \/ GenTake
    \/ GenYield
    \/ ConsumerNext
    \/ ConsumerClose
    \/ GenExit
    \/ \E t \in Threads :
          \/ RefillCheck(t)
          \/ RefillEnter(t)
          \/ RefillWhile(t)
          \/ ReqCheck(t)
          \/ ReqPull(t)
          \/ ReqRun(t)
          \/ ReqStore(t)
          \/ ReqAddCb(t)
          \/ ReqReturn(t)
          \/ FinDec(t)
          \/ FinCheck(t)
          \/ FinExc(t)
          \/ FinReturn(t)
    \/ \E k \in Items : Complete(k)

SpecBuffer == InitBuffer /\ [][NextBuffer]_vars

\* ------------------------------------------- buffer_futures under fairness
\* A step of the code that thread t runs inside _refill, _request_next and
\* _finished.
ThreadStep(t) ==
    \/ RefillCheck(t)
    \/ RefillEnter(t)
    \/ RefillWhile(t)
    \/ ReqCheck(t)
    \/ ReqPull(t)
    \/ ReqRun(t)
    \/ ReqStore(t)
    \/ ReqAddCb(t)
    \/ ReqReturn(t)
    \/ FinDec(t)
    \/ FinCheck(t)
    \/ FinExc(t)
    \/ FinReturn(t)

\* The consumer's thread: it runs the generator and asks for the next
\* element whenever the generator is suspended; it never closes it.
MainStep ==
    \/ GenStart
    \/ GenLoopFinished
    \/ GenLoopReorder
    \/ GenLoopRunning
    \/ GenSpinCheck
    \/ GenTake
    \/ GenYield
    \/ ConsumerNext
    \/ GenExit
    \/ ThreadStep(Main)

\* The thread that completes future k and runs its callback.
WorkerStep(k) ==
    \/ Complete(k)
    \/ ThreadStep(Worker(k))

InitLive ==
    /\ InitBuffer
    /\ prefetch >= 1

NextLive ==
    \/ MainStep
    \/ \E k \in Items : WorkerStep(k)

\* Every thread that can run is eventually scheduled: the interpreter
\* switches threads regularly, so neither the consumer's spin nor a
\* callback keeps another thread from running for ever.
SpecLive ==
    /\ InitLive
    /\ [][NextLive]_vars
    /\ WF_vars(MainStep)
    /\ \A k \in Items : WF_vars(WorkerStep(k))

InitClose ==
    /\ RenderIdle
    /\ BufferIdle
    /\ PolicyIdle
    /\ LoopsIdle
    /\ FramesIdle
    /\ CloseFresh
    /\ srcLen \in 0..MaxRes
    /\ cwnPc = "for"

NextClose ==
    \/ CwnFor
    \/ CwnCopy
    \/ CwnYield
    \/ CwnResult
    \/ CwnNext
    \/ CwnAbandon
    \/ CwnCloseFut
    \/ \E k \in Res : CwnComplete(k)
    \/ \E t \in CwnThreads :
          \/ EnterCall(t)
          \/ EnterReturn(t)
          \/ SetResult(t)
          \/ SetException(t)
          \/ CallbackRaises(t)
          \/ ExitCall(t)

SpecClose == InitClose /\ [][NextClose]_vars

\* every store starts empty and the policy unregistered
PolicyFresh ==
    /\ RenderIdle
    /\ BufferIdle
    /\ CloseIdle
    /\ ManagedIdle
    /\ LoopsIdle
    /\ FramesIdle
    /\ registered = FALSE
    /\ storeKind \in {"global", "threadlocal"}
    /\ slot = [k \in SlotKeys |-> NoRef]
    /\ tok = [e \in Tokens |-> "unborn"]
    /\ local = [t \in PolThreads |-> None]
    /\ mutex = None
    /\ ppc = [t \in PolThreads |-> "idle"]
    /\ arg = [t \in PolThreads |-> None]
    /\ prev = [t \in PolThreads |-> NoRef]
    /\ disposedH = [e \in Tokens |-> FALSE]
    /\ destroyCount = [e \in Tokens |-> 0]
    /\ last = [t |-> App, env |-> None, op |-> "none", ret |-> None]
    /\ lastSet = [k \in SlotKeys |-> Passed(App, None)]
    /\ disposeCalled = [e \in Tokens |-> FALSE]

\* every thread calls into the policy
InitPolicy == PolicyFresh /\ callers = PolThreads

\* one thread calls into the policy
InitPolicyOne == PolicyFresh /\ callers = {1}

NextPolicy ==
    \/ Register
    \/ Api
    \/ Unregister
    \/ NewEnvironment
    \/ \E e \in Tokens : Collect(e)
    \/ \E t \in callers :
          \/ InlineEnd(t)
          \/ GetFast(t)
          \/ GetLock(t)
          \/ GetCheck(t)
          \/ SetDone(t)
          \/ \E e \in Tokens :
                \/ Dispose(t, e)
                \/ InlineStart(t, e)
          \/ \E e \in {None} \cup Tokens : SetLock(t, e)

SpecPolicy == InitPolicy /\ [][NextPolicy]_vars

SpecPolicyOne == InitPolicyOne /\ [][NextPolicy]_vars

\* one thread works with managed environments
NextManaged ==
    \/ Register
    \/ Unregister
    \/ NewEnvironment
    \/ \E e \in Tokens : Collect(e)
    \/ \E t \in callers :
          \/ InlineEnd(t)
          \/ GetFast(t)
          \/ GetLock(t)
          \/ GetCheck(t)
          \/ UseExit(t)
          \/ \E h \in Tokens :
                \/ Dispose(t, h)
                \/ Finalize(t, h)
                \/ UseEnter(t, h)
                \/ Switch(t, h)
                \/ EnvInline(t, h)
                \/ EnvProperty(t, h, "core")
                \/ EnvProperty(t, h, "outputs")
                \/ VsEnvironment(t, h)

SpecManaged == InitPolicyOne /\ [][NextManaged]_vars

\* one thread makes environments current and wraps a function; the wrapped
\* function is called on any thread
NextKeep ==
    \/ Register
    \/ NewEnvironment
    \/ \E e \in Tokens : Collect(e)
    \/ \E t \in callers :
          \/ Wrap(t)
          \/ InlineEnd(t)
          \/ \E h \in Tokens :
                \/ Dispose(t, h)
                \/ Switch(t, h)
                \/ EnvInline(t, h)
    \/ \E u \in PolThreads :
          \/ CallEnter(u)
          \/ CallReturn(u)
          \/ GetFast(u)
          \/ GetLock(u)
          \/ GetCheck(u)

SpecKeep == InitPolicyOne /\ [][NextKeep]_vars

\* one thread opens and leaves inline sections, nested or not, and asks
\* for the current environment
NextInline ==
    \/ Register
    \/ NewEnvironment
    \/ \E t \in callers :
          \/ SectionExit(t)
          \/ GetFast(t)
          \/ GetLock(t)
          \/ GetCheck(t)
          \/ SetDone(t)
          \/ \E h \in Tokens :
                \/ Dispose(t, h)
                \/ SectionEnter(t, h)
                \/ SetLock(t, h)

SpecInline == InitPolicyOne /\ [][NextInline]_vars

\* the loops module with the application's loops, of either kind
InitLoops ==
    /\ RenderIdle
    /\ BufferIdle
    /\ CloseIdle
    /\ PolicyIdle
    /\ FramesIdle
    /\ LoopsFresh
    /\ loopKind \in [1..MaxLoops -> DispatchKinds]

NextLoops ==
    \/ GetLoop
    \/ NextCycle
    \/ \E k \in 1..MaxCycles : LoopTick(k)
    \/ \E l \in Loops, detachRaises, attachRaises \in BOOLEAN :
          SetLoop(l, detachRaises, attachRaises)

SpecLoops == InitLoops /\ [][NextLoops]_vars

\* buffer_futures has been called with some arguments
InitNormalise ==
    /\ RenderIdle
    /\ BufferIdle
    /\ CloseIdle
    /\ PolicyIdle
    /\ LoopsIdle
    /\ rawPrefetch \in RawPrefetch
    /\ rawBacklog \in RawBacklog
    /\ mode = "called"
    /\ requested = 0
    /\ started = 0

NextNormalise ==
    \/ Normalise
    \/ \E p \in RawPrefetch, b \in RawBacklog : BufferFuturesCall(p, b)

SpecNormalise == InitNormalise /\ [][NextNormalise]_vars

\* frames(node, env, prefetch, backlog) has returned its iterator over a clip
\* of n frames: the pipeline at its start, or the bare generator
InitFrames ==
    /\ RenderIdle
    /\ CloseIdle
    /\ PolicyIdle
    /\ LoopsIdle
    /\ rawPrefetch \in RawPrefetch
    /\ rawBacklog \in RawBacklog
    /\ requested = 0
    /\ started = 0
    /\ n \in 0..MaxItems
    /\ i = 0
    /\ finished = FALSE
    /\ running = 0
    /\ reorder = {}
    /\ sidx = 0
    /\ lockOwner = NoThread
    /\ lockCount = 0
    /\ fstate = [k \in Items |-> "unborn"]
    /\ cb = [k \in Items |-> "none"]
    /\ out = <<>>
    /\ IF UsesPipeline(rawBacklog)
       THEN /\ mode = "pipeline"
            /\ prefetch = NormPrefetch(rawPrefetch)
            /\ backlog = NormBacklog(rawPrefetch, rawBacklog)
            /\ stack = [t \in Threads |->
                          IF t = Main THEN <<Frame("gen", "start", 0 - 1)>>
                          ELSE <<Frame("set_result", "W0", t - 1)>>]
       ELSE /\ mode = "direct"
            /\ prefetch = 0
            /\ backlog = 0
            /\ stack = [t \in Threads |-> <<>>]

NextFrames ==
    \/ mode = "pipeline" /\ NextBuffer
    \/ DirectRequest
    \/ DirectStart

SpecFrames == InitFrames /\ [][NextFrames]_vars

\* render(node, y4m=...) on a clip of frameCount frames, its consumer taking
\* futures at its own pace while the engine delivers the frames
InitRender ==
    /\ BufferIdle
    /\ CloseIdle
    /\ PolicyIdle
    /\ LoopsIdle
    /\ FramesIdle
    /\ RenderFresh
    /\ y4m \in BOOLEAN
    /\ frameCount \in 0..MaxFrames
    /\ renderPc = "start"

NextRender ==
    \/ RenderHeader
    \/ RenderPull
    \/ \E k \in FrameNos : FrameResolves(k)

SpecRender == InitRender /\ [][NextRender]_vars

TypeOK ==
    /\ i \in 0..n
    /\ sidx \in 0..n
    /\ reorder \subseteq Items
    /\ lockCount >= 0
    /\ (lockOwner = NoThread) = (lockCount = 0)

\* ------------------------------------------------- buffer_futures: claims
GenPc == stack[Main][1].pc
GenDone == GenPc = "done"
GenClosed == GenPc = "closed"
NoFailure == \A k \in Items : fstate[k] # "fail"
InOrder(s) == \A j \in 1..Len(s) : s[j] = j - 1
FailedCallbackRan == \E k \in Items : fstate[k] = "fail" /\ cb[k] = "done"

\* C1: over a source of n futures that all succeed, and prefetch >= 1, the
\* generator yields exactly n futures and the k-th yielded is the k-th of the
\* source, whatever the completion order, prefetch and backlog.
C1_OrderedDelivery ==
    /\ InOrder(out)
    /\ (GenDone /\ NoFailure /\ prefetch >= 1) => Len(out) = n

C1_Witness ==
    /\ GenDone /\ NoFailure /\ n = MaxItems /\ Len(out) = n
    /\ prefetch = 2 /\ backlog = 2

\* C2 as stated: in every reachable state 0 <= running <= prefetch and the
\* reorder buffer holds at most backlog entries.
C2_Original ==
    /\ 0 <= running
    /\ running <= prefetch
    /\ Cardinality(reorder) <= backlog

\* C2, amended: the same whenever the effective prefetch is not negative
\* (a negative prefetch is kept as it is by the normalisation).
C2_Bounded == prefetch >= 0 => C2_Original

C2_Witness ==
    /\ prefetch >= 1
    /\ running = prefetch
    /\ Cardinality(reorder) = backlog
    /\ \E t \in Threads : t # Main /\ lockOwner = t

\* C3: once the completion callback of a failed future has run, the request
\* cursor never advances again.
C3_NoRequestAfterFailure == [][FailedCallbackRan => i' = i]_vars

C3_Witness ==
    /\ FailedCallbackRan
    /\ i < n
    /\ \E k \in Items : fstate[k] = "ok" /\ cb[k] = "done" /\ fstate[0] = "fail"

\* C4: when the consumer iterates to the end and future k failed, the
\* futures 0..k have all been yielded, in index order, the failed one at
\* position k.
C4_FailureDeliveredInPlace ==
    \A k \in Items :
        (GenDone /\ fstate[k] = "fail") =>
            /\ Len(out) > k
            /\ \A j \in 0..k : out[j + 1] = j

C4_Witness ==
    /\ GenDone
    /\ fstate[1] = "fail" /\ fstate[0] = "ok"
    /\ Len(out) >= 2 /\ i < n

\* C5: the generator leaves its loop only when finished is true, the reorder
\* buffer is empty and running is 0, and by then every requested item has
\* been yielded.
C5_DrainedAtReturn ==
    GenPc \in {"exit", "done"} =>
        /\ finished
        /\ reorder = {}
        /\ running = 0
        /\ Len(out) = i
        /\ sidx = i

C5_Witness ==
    /\ GenPc = "exit"
    /\ NoFailure /\ i = n /\ n = MaxItems /\ Len(out) = n
    /\ prefetch = 1

\* C6 as stated: once the consumer has closed the generator, no source item
\* is requested any more.
C6_NoRequestAfterClose == [][GenClosed => i' = i]_vars

\* ---------------------------------------------- close_when_needed: claims
Sources == 0..(srcLen - 1)
\* set_result has returned for every source future, each with a resource
AllCompleted ==
    \A k \in Sources : fut[k] = "ok" /\ todo[Worker(k)] = <<>>

\* C7 as stated: __exit__ of a resource is never invoked before its
\* __enter__ has been invoked and has returned.
C7_NeverExitBeforeEnter ==
    [][\A k \in Res : exits'[k] > exits[k] => entered[k] = "yes"]_vars

\* C8: __exit__ is invoked at most once per resource.
C8_ExitAtMostOnce == \A k \in Res : exits[k] <= 1

C8_Witness ==
    /\ exits[0] = 1 /\ callbacks[0] = <<"_as_completed", "_do_close">>
    /\ exits[1] = 1 /\ callbacks[1] = <<>>
    /\ exits[2] = 1 /\ callbacks[2] = <<"_as_completed">>

\* C9: when the consumer has exhausted the generator and every source future
\* has completed successfully, every resource has been exited exactly once.
C9_AllExitedOnce ==
    (cwnPc = "done" /\ AllCompleted) => \A k \in Sources : exits[k] = 1

C9_Witness ==
    /\ cwnPc = "done" /\ AllCompleted /\ srcLen = MaxRes
    /\ got = {}
    /\ \A k \in Sources : exits[k] = 1

\* C10: when the consumer had the result of element k before it asked for
\* element k+1, resource k has been exited by the time it is given
\* element k+1.
C10_ExitedBeforeNextElement ==
    \A k \in Res : (k \in got /\ yielded > k + 1) => exits[k] = 1

C10_Witness ==
    /\ got = {0, 1} /\ yielded = 3 /\ cwnPc = "suspended"
    /\ exits[0] = 1 /\ exits[1] = 1 /\ exits[2] = 0

\* ---------------------------------------------------------- policy: claims
\* a get_current_environment that went through the store returns on this step
GetReturns(t) == ppc[t] = "g_check" /\ ppc'[t] = "idle"

\* a set_environment returns on this step
SetReturns(t) == ppc[t] = "s_write" /\ ppc'[t] = "idle"

\* the argument of the last set_environment on the calling thread's slot
LastSet(t) == lastSet[SlotOf(t)].val

\* C11 as stated: get_current_environment returns exactly the last value
\* passed to set_environment (None if there was none), for every value that
\* has not been destroyed since it was passed.
C11_Original ==
    [][\A t \in PolThreads :
          (/\ GetReturns(t)
           /\ \/ LastSet(t) = None
              \/ ~lastSet[SlotOf(t)].live
              \/ IsAlive(LastSet(t)))
          => last'.ret = LastSet(t)]_vars

\* C11, amended: get_current_environment returns the last value passed to
\* set_environment when that value is a token that is alive, and None when
\* set_environment was never called, was last given None, or was last given a
\* token that is not alive.
C11_LastLiveValue ==
    [][\A t \in PolThreads :
          GetReturns(t)
          => last'.ret = IF LastSet(t) # None /\ IsAlive(LastSet(t))
                         THEN LastSet(t) ELSE None]_vars

\* a get has just answered with the token that was set last
C11_Witness ==
    /\ last.op = "get"
    /\ last.ret \in Tokens
    /\ \E t \in callers : local[t] = None /\ LastSet(t) = last.ret

\* the token the calling thread's slot refers to is gone: collected, or no
\* longer alive
StoredGone(t) ==
    /\ StoreGet(t) # NoRef
    /\ Deref(StoreGet(t)) = None \/ ~IsAlive(Deref(StoreGet(t)))

\* C12: when the stored current token has been destroyed (collected, or not
\* alive any more), get_current_environment returns None and clears the
\* store; on an empty store it returns None and leaves the store empty, so
\* every later get returns None until the next set_environment.
C12_DeadTokenCleared ==
    [][\A t \in PolThreads :
          /\ (GetReturns(t) /\ StoredGone(t))
             => last'.ret = None /\ slot'[SlotOf(t)] = NoRef
          /\ (GetReturns(t) /\ StoreGet(t) = NoRef)
             => last'.ret = None /\ slot' = slot]_vars

\* a token was stored alive, was destroyed, and a get has cleared the store
C12_Witness ==
    /\ last.op = "get"
    /\ last.ret = None
    /\ \E t \in callers :
          /\ lastSet[SlotOf(t)].live
          /\ ~IsAlive(LastSet(t))
          /\ StoreGet(t) = NoRef

\* C13: set_environment with a token that fails the liveness check does what
\* set_environment(None) does: the slot is cleared, no reference to the dead
\* token is stored, the previous token is returned, and a following get
\* returns None.
C13_DeadArgumentClears ==
    [][\A t \in PolThreads :
          (SetReturns(t) /\ arg[t] # None /\ ~IsAlive(arg[t]))
          => /\ slot' = StoreSet(t, NoRef)
             /\ \A k \in SlotKeys : slot'[k].tok # arg[t]
             /\ last'.ret = Deref(StoreGet(t))]_vars

\* a set_environment given a dead token has emptied a slot that held a token
C13_Witness ==
    /\ last.op = "set"
    /\ last.ret \in Tokens
    /\ \E t \in callers :
          /\ LastSet(t) \in Tokens
          /\ ~lastSet[SlotOf(t)].live
          /\ StoreGet(t) = NoRef

\* C14: set_environment returns the token that was stored as current just
\* before it wrote, the stored weak reference dereferenced, and None when
\* nothing was stored, whether its argument is None, alive or dead.
C14_ReturnsPrevious ==
    [][\A t \in PolThreads :
          SetReturns(t) => last'.ret = Deref(StoreGet(t))]_vars

\* a set_environment has replaced one token by another and returned the first
C14_Witness ==
    /\ last.op = "set"
    /\ last.ret \in Tokens
    /\ \E t \in callers :
          /\ StoreGet(t) = Ref(LastSet(t))
          /\ LastSet(t) # last.ret

\* C15: the store is read and written only under the policy's mutex: a
\* thread between its read of the store and the end of its call holds the
\* mutex, no two threads are there at once, and what it read is still what
\* the store holds, so the calls take effect one after another.
C15_StoreUnderMutex ==
    /\ \A t \in PolThreads :
          ppc[t] # "idle" => mutex = t /\ prev[t] = StoreGet(t)
    /\ \A t, u \in PolThreads :
          (ppc[t] # "idle" /\ ppc[u] # "idle") => t = u

\* on a shared store a thread holds the mutex inside set_environment, about
\* to replace the token another call stored
C15_Witness ==
    /\ storeKind = "global"
    /\ \E t \in callers :
          /\ t # 1
          /\ ppc[t] = "s_write"
          /\ mutex = t
          /\ prev[t] # NoRef
          /\ arg[t] \in Tokens
          /\ arg[t] # prev[t].tok

\* C16: the store starts empty, and whatever the policy writes into it is
\* nothing or a weak reference, never the token itself, to a token that
\* passes the liveness check at the time of the write.
C16_OnlyLiveWeakRefs ==
    [][\A k \in SlotKeys :
          slot'[k] # slot[k]
          => \/ slot'[k] = NoRef
             \/ slot'[k].kind = "weak" /\ IsAlive(slot'[k].tok)]_vars

\* the store still refers to a token that has been destroyed and collected
\* since it was stored
C16_Witness ==
    \E k \in SlotKeys :
       slot[k].kind = "weak" /\ tok[slot[k].tok] = "collected"

\* the calling thread has an inline override and its token is alive
OwnLive(t) == local[t] # None /\ IsAlive(local[t])

\* a get_current_environment enters the store path on this step
GetEntersStore(t) == ppc[t] = "idle" /\ ppc'[t] = "g_check"

\* a get_current_environment returns on this step without the store path
GetReturnsFast == last' # last /\ last'.op = "get" /\ ppc' = ppc

\* C17: inside an inline section for a live token X, get_current_environment
\* returns X whatever the store holds and touches neither the store nor the
\* mutex; with an override that is not alive it takes the store path;
\* entering and leaving an inline section leave the store unchanged.
C17_InlineOverride ==
    [][/\ \A t \in PolThreads : GetEntersStore(t) => ~OwnLive(t)
       /\ GetReturnsFast
          => /\ \E t \in callers : OwnLive(t) /\ last'.ret = local[t]
             /\ slot' = slot
             /\ mutex' = mutex
       /\ local' # local => slot' = slot]_vars

\* inside an inline section a get has answered with the override while the
\* store holds another token
C17_Witness ==
    /\ last.op = "get"
    /\ \E t \in callers :
          /\ OwnLive(t)
          /\ last.ret = local[t]
          /\ StoreGet(t) # NoRef
          /\ StoreGet(t) # Ref(local[t])
          /\ IsAlive(Deref(StoreGet(t)))

\* what the store path answers for the calling thread's slot
StoreAnswer(t) ==
    IF Deref(StoreGet(t)) # None /\ IsAlive(Deref(StoreGet(t)))
    THEN Deref(StoreGet(t)) ELSE None

\* C18: an inline override is seen by its own thread only: a thread's get
\* answers from an override only if that thread itself has a live one, and
\* otherwise get and set answer from the store alone, whatever overrides the
\* other threads have.
C18_OverrideThreadLocal ==
    [][\A t \in PolThreads :
          /\ (GetReturnsFast /\ last'.t = t)
             => OwnLive(t) /\ last'.ret = local[t]
          /\ GetEntersStore(t) => ~OwnLive(t)
          /\ GetReturns(t) => last'.ret = StoreAnswer(t)
          /\ SetReturns(t) => last'.ret = Deref(StoreGet(t))
          /\ local'[t] # local[t] => \A u \in PolThreads \ {t} :
                                        local'[u] = local[u]]_vars

\* while one thread is inside an inline section for a live token, a get on
\* another thread has answered with something else
C18_Witness ==
    \E a, b \in callers :
       /\ a # b
       /\ OwnLive(a)
       /\ local[b] = None
       /\ last.t = b
       /\ last.op = "get"
       /\ last.ret # local[a]

\* a call of one of the policy's accessors returns or raises on this step
AccessorReturns ==
    /\ last' # last
    /\ last'.op \in {"api", "get", "set", "new_environment", "unregister"}

\* C19 as stated: an accessor of a policy that is not registered (not yet, or
\* not any more) fails with an error.
C19_FailsUnlessRegistered ==
    [][(AccessorReturns /\ ~registered) => last'.ret = Error]_vars

\* a call of dispose on managed environment h returns or raises on this step
DisposeReturns(h) ==
    last' # last /\ last'.op = "dispose" /\ last'.env = h

\* C20 as stated: after any number of dispose calls, one or more, the token
\* has been destroyed exactly once and disposed is true.
C20_Original ==
    \A h \in Tokens :
       disposeCalled[h] => disposedH[h] /\ destroyCount[h] = 1

\* C20, amended: a dispose made while the policy is registered destroys the
\* token and sets disposed; the token is never destroyed twice; disposed never
\* becomes false again; a dispose of a disposed environment does nothing and
\* raises nothing; a first dispose made while the policy is not registered
\* raises, destroys nothing and leaves disposed false.
C20_DisposeOnce ==
    [][\A h \in Tokens :
          /\ destroyCount'[h] <= 1
          /\ disposedH[h] => disposedH'[h]
          /\ disposedH'[h] <=> destroyCount'[h] = 1
          /\ DisposeReturns(h)
             => IF disposedH[h]
                THEN /\ last'.ret = None
                     /\ UNCHANGED <<destroyCount, tok, local, slot>>
                ELSE IF registered
                THEN /\ last'.ret = None
                     /\ disposedH'[h]
                     /\ ~IsAlive(h)'
                ELSE /\ last'.ret = Error
                     /\ ~disposedH'[h]]_vars

\* a dispose that was the second on its environment: the token destroyed
\* once, and the calling thread's inline override, which a first dispose
\* removes, still in place after the call
C20_Witness ==
    \E h \in Tokens :
       /\ disposedH[h]
       /\ destroyCount[h] = 1
       /\ last.op = "dispose"
       /\ last.env = h
       /\ last.ret = None
       /\ last.t \in callers
       /\ local[last.t] # None

\* --------------------------------------------- ManagedEnvironment: claims
\* the operations of a managed environment that act on or hand out its context
HandleOps ==
    {"use", "switch", "inline_section", "core", "outputs", "vs_environment"}

\* a call of one of them on managed environment h returns or raises on this
\* step
HandleOpReturns(h) ==
    last' # last /\ last'.env = h /\ last'.op \in HandleOps

\* C21 as stated: once a managed environment is disposed, use(), switch(),
\* inline_section(), core, outputs and vs_environment each fail instead of
\* acting on or returning the destroyed context.
C21_DisposedFails ==
    [][\A h \in Tokens :
          (HandleOpReturns(h) /\ disposedH[h]) => last'.ret = Error]_vars

\* the finalizer of managed environment h runs on this step
FinalizerRuns(h) == finalized'[h] /\ ~finalized[h]

TopBlock(t) == useStack[t][Len(useStack[t])]

\* thread t enters a use() block on this step, for an environment that exists
UseEnters(t) ==
    /\ Len(useStack'[t]) = Len(useStack[t]) + 1
    /\ TopBlock(t)'.kind = "use"
    /\ IsAlive(TopBlock(t)'.env)

\* thread t leaves its innermost use() block on this step
UseLeaves(t) ==
    /\ Len(useStack'[t]) = Len(useStack[t]) - 1
    /\ TopBlock(t).kind = "use"

NewEnvironmentReturns == last' # last /\ last'.op = "new_environment"

\* C24: new_environment creates and wraps a new token without changing which
\* context is current: the store, the inline overrides and what
\* get_current_environment answers on each thread are the same before and
\* after the call.
C24_NewEnvironmentKeepsCurrent ==
    [][NewEnvironmentReturns
       => /\ slot' = slot
          /\ local' = local
          /\ \A t \in PolThreads : CurrentOf(t)' = CurrentOf(t)]_vars

\* a second environment was created while the first was current, and the
\* first still is
C24_Witness ==
    /\ last.op = "new_environment"
    /\ last.ret \in Tokens
    /\ \E t \in callers :
          /\ local[t] = None
          /\ CurrentOf(t) \in Tokens
          /\ CurrentOf(t) # last.ret

\* a call of switch on managed environment h, which exists, returns on
\* thread t on this step
SwitchReturns(t, h) ==
    /\ last' # last
    /\ last'.op = "switch" /\ last'.t = t /\ last'.env = h
    /\ IsAlive(h)

\* C25: switch makes its context current through the store whatever was
\* current before and records nothing to restore; what the store answers
\* changes afterwards only when a later set_environment stores something
\* else (its own, or the one use and switch make) or when the current context
\* is destroyed.
C25_SwitchStays ==
    [][\A t \in PolThreads :
          /\ \A h \in Tokens :
                SwitchReturns(t, h)
                => /\ last'.ret = None
                   /\ StoreAnswer(t)' = h
                   /\ useStack' = useStack
          /\ StoreAnswer(t)' # StoreAnswer(t)
             => lastSet' # lastSet \/ tok' # tok]_vars

\* inside a use() block on one environment a switch has made another current,
\* and the block's record is as it was
C25_Witness ==
    \E t \in callers :
       /\ last.op = "switch" /\ last.t = t /\ last.ret = None
       /\ IsAlive(last.env)
       /\ StoreAnswer(t) = last.env
       /\ Len(useStack[t]) = 1
       /\ useStack[t][1].env # last.env
       /\ IsAlive(useStack[t][1].env)

\* ------------------------------------------------------------ loops: claims
\* a call of set_loop returns or raises on this step
SetLoopReturns == loopLog' # loopLog /\ loopLog'.op = "set_loop"

\* C26: set_loop(L) first detaches the current loop, then makes L current and
\* attaches it, so that after a successful call get_loop() is L; when
\* L.attach() raises, the current loop becomes NO_LOOP, not the previous
\* loop, and the exception reaches the caller.  (When detach raises nothing
\* else is called and the current loop stays.)
C26_SetLoop ==
    [][/\ SetLoopReturns
          => /\ loopLog'.calls[1] = LoopCall("detach", currentLoop)
             /\ Len(loopLog'.calls) = 2
                => loopLog'.calls[2] = LoopCall("attach", loopLog'.arg)
             /\ loopLog'.ret = None
                => /\ Len(loopLog'.calls) = 2
                   /\ currentLoop' = loopLog'.arg
                   /\ loopLog'.arg \in attachedL'
             /\ (loopLog'.ret = Error /\ Len(loopLog'.calls) = 2)
                => currentLoop' = NoLoop
             /\ (loopLog'.ret = Error /\ Len(loopLog'.calls) = 1)
                => currentLoop' = currentLoop
       /\ (loopLog' # loopLog /\ loopLog'.op = "get_loop")
          => loopLog'.ret = currentLoop
       /\ currentLoop' # currentLoop => SetLoopReturns]_vars

\* a loop was current, set_loop was called with another whose attach raised,
\* and NO_LOOP is current now
C26_Witness ==
    /\ loopLog.op = "set_loop"
    /\ loopLog.ret = Error
    /\ Len(loopLog.calls) = 2
    /\ loopLog.before # NoLoop
    /\ loopLog.arg # loopLog.before
    /\ currentLoop = NoLoop

\* C27 as stated: next_cycle returns an already resolved future when no event
\* loop is attached, and a future that is not yet resolved at return time
\* when one is.
C27_NextCycle ==
    \A k \in 1..Len(cycles) :
       cycles[k].atReturn = IF cycles[k].loop = NoLoop
                            THEN "resolved" ELSE "pending"

\* ----------------------------------------------------------- frames: claims
\* C28: buffer_futures normalises its arguments: a prefetch of 0 becomes the
\* engine's thread count; a backlog that was not given becomes 3 x prefetch;
\* a backlog smaller than prefetch, 0 and negative ones included, is raised
\* to prefetch; so the effective backlog is at least the effective prefetch.
C28_Normalised ==
    mode = "pipeline"
    => /\ prefetch = IF rawPrefetch = 0 THEN NumThreads ELSE rawPrefetch
       /\ LET given == IF rawBacklog = <<>> THEN 3 * prefetch
                       ELSE rawBacklog[1]
          IN  backlog = IF given < prefetch THEN prefetch ELSE given
       /\ (rawBacklog = <<>> /\ prefetch >= 0) => backlog = 3 * prefetch
       /\ backlog >= prefetch

\* buffer_futures(prefetch=0, backlog=0) has normalised both to the thread
\* count
C28_Witness ==
    /\ mode = "pipeline"
    /\ rawPrefetch = 0
    /\ rawBacklog = <<0>>
    /\ prefetch = NumThreads
    /\ backlog = NumThreads

\* C29: frames called with a backlog <= 0 bypasses the pipeline: frame k is
\* requested from the engine only when the consumer asks for the k-th
\* element, in index order and with no lookahead; called with no backlog or
\* a backlog > 0 it goes through the pipeline.
C29_FramesBypass ==
    /\ mode \in {"direct", "pipeline"}
    /\ (mode = "direct") = (rawBacklog # <<>> /\ rawBacklog[1] <= 0)
    /\ mode = "direct"
       => /\ started <= requested
          /\ requested <= started + 1
          /\ started <= n
          /\ i = 0 /\ running = 0 /\ reorder = {}
    /\ mode = "pipeline" => requested = 0 /\ started = 0

\* frames(backlog=0) over a clip: every frame has been requested, each after
\* the consumer asked for it
C29_Witness ==
    /\ mode = "direct"
    /\ rawBacklog = <<0>>
    /\ n = MaxItems
    /\ started = n
    /\ requested = n

\* ------------------------------------------------ keep_environment: claims
\* thread u enters the wrapped function on this step
CallEnters(u) ==
    /\ Len(useStack'[u]) = Len(useStack[u]) + 1
    /\ TopBlock(u)'.kind \in {"call", "plain"}

\* the wrapped function returns on thread u on this step
CallLeaves(u) ==
    /\ Len(useStack'[u]) = Len(useStack[u]) - 1
    /\ TopBlock(u).kind \in {"call", "plain"}

\* a context, if it still exists
StillAlive(e) == IF e # None /\ IsAlive(e) THEN e ELSE None

\* C30 as stated: a function wrapped by keep_environment runs with the
\* context that was current when it was wrapped (taken here for a context
\* that still exists), whatever is current on the executing thread, and the
\* executing thread's previous context is restored when it returns; with no
\* context current at wrap time the function runs with the context untouched.
C30_Original ==
    [][\A u \in PolThreads :
          /\ (CallEnters(u) /\ captured # None /\ IsAlive(captured))
             => /\ StoreAnswer(u)' = captured
                /\ TopBlock(u)'.cur = StoreAnswer(u)
          /\ (CallEnters(u) /\ captured = None) => slot' = slot
          /\ CallLeaves(u)
             => IF TopBlock(u).kind = "call"
                THEN StoreAnswer(u)' = TopBlock(u).cur
                ELSE slot' = slot]_vars

\* C30, amended: keep_environment captures the context that is current when
\* it wraps.  A call of the wrapped function, on any thread and whatever is
\* current there, makes the captured context current through the store for
\* the function if that context still exists, and on return the executing
\* thread's previous context is current again if it still exists, and none
\* otherwise.  With no context current at wrap time the call and the return
\* leave the store untouched.
C30_KeepsEnvironment ==
    [][/\ captured' # captured
          => \E t \in PolThreads : captured' = CurrentOf(t)
       /\ \A u \in PolThreads :
             /\ (CallEnters(u) /\ captured # None /\ IsAlive(captured))
                => /\ TopBlock(u)'.kind = "call"
                   /\ StoreAnswer(u)' = captured
                   /\ ~OverrideAlive(u) => CurrentOf(u)' = captured
                   /\ TopBlock(u)'.cur = StoreAnswer(u)
             /\ (CallEnters(u) /\ captured = None)
                => TopBlock(u)'.kind = "plain" /\ slot' = slot
             /\ CallLeaves(u)
                => IF TopBlock(u).kind = "call"
                   THEN StoreAnswer(u)' = StillAlive(TopBlock(u).cur)
                   ELSE slot' = slot]_vars

\* a function wrapped under one context is running on another thread, which
\* had another context current, and its get_current_environment has answered
\* the captured one
C30_Witness ==
    \E u \in PolThreads \ callers :
       /\ useStack[u] # <<>>
       /\ TopBlock(u).kind = "call"
       /\ TopBlock(u).cur \in Tokens
       /\ TopBlock(u).cur # captured
       /\ last.op = "get" /\ last.t = u /\ last.ret = captured

\* ------------------------------------------ buffer_futures: more claims
\* C31 as stated: whenever the delivery loop has evaluated its condition as
\* true, the entry at the delivery cursor sidx is in the reorder buffer, so
\* the spin branch is never taken.
\* (the step from the test `sidx not in reorder` back to the loop condition
\* is the `continue` of the spin branch)
C31_NeverSpins ==
    [][At(Main, "gen", "body") => sidx \in reorder /\ ~At(Main, "gen", "loop")']_vars

\* the indices that a thread inside _request_next has pulled from the
\* source and not yet stored (between next(enum_fut) and reorder[idx] = fut)
BeingStored ==
    {k \in 0..(MaxItems - 1) :
        \E t \in DOMAIN stack :
            /\ (At(t, "_request_next", "Q3") \/ At(t, "_request_next", "Q4"))
            /\ Top(t).f = k}

RefillToCome ==
    \/ At(Main, "gen", "start")
    \/ \E t \in DOMAIN stack : \E j \in 1..Len(stack[t]) :
          \/ stack[t][j].fn \in {"_refill", "_request_next"}
          \/ stack[t][j].fn = "_finished" /\ stack[t][j].pc \in {"F0", "F2", "F3"}

\* C33: for effective prefetch >= 1, a finite source whose requested futures
\* all complete and have their callbacks run, and a consumer that keeps
\* asking: every request for the next element ends in a yield or in the end
\* of the iteration, the generator eventually terminates, and no state is
\* reached where finished is false, nothing is running and nothing is
\* buffered with no refill still to come.
C33_NoLostWakeup ==
    /\ [](~finished /\ running = 0 /\ reorder = {} => RefillToCome)
    /\ [](At(Main, "gen", "loop") => <>(At(Main, "gen", "suspended") \/ GenDone))
    /\ <>GenDone

\* with one future in flight at a time the generator has delivered the
\* whole source and ended
C33_Witness ==
    /\ GenDone
    /\ n = MaxItems
    /\ Len(out) = n
    /\ prefetch = 1

\* the callback of the failed future k has marked the pipeline finished
FailureMarked(k) == fstate[k] = "fail" /\ cb[k] = "done"

\* C34: when the failure of item k marks the pipeline finished, and from
\* then on, an entry leaves the reorder buffer only by being delivered at
\* the cursor,
\* every buffered item behind k is eventually yielded at its own position
\* when the consumer keeps iterating, and the generator returns only with
\* an empty buffer and nothing running.
C34_LaterItemsDelivered ==
    /\ [][FailedCallbackRan' =>
            \/ reorder' = reorder
            \/ reorder' = reorder \ {sidx} /\ sidx' = sidx + 1]_vars
    /\ \A k \in Items : \A j \in Items :
          [](FailureMarked(k) /\ j > k /\ j \in reorder
                => <>(Len(out) > j /\ out[j + 1] = j))
    /\ [](InOrder(out))
    /\ [](FailedCallbackRan /\ GenPc \in {"exit", "done"}
                => reorder = {} /\ running = 0)

\* item 0 has failed and marked the pipeline; item 1, requested before
\* that, has been yielded after item 0 and item 2 is still buffered
C34_Witness ==
    /\ FailureMarked(0)
    /\ out = <<0, 1>>
    /\ 2 \in reorder

\* ------------------------------------------ close_when_needed: more claims
\* thread t still has the __exit__ of resource k to run
ExitPending(t, k) == \E j \in 1..Len(todo[t]) : todo[t][j] = <<"exit", k>>

\* C35: the element given last (element cur, while the generator has not
\* been asked for the next one) and the elements not yet given have not
\* been exited, no __exit__ of theirs is under way and none is registered;
\* this includes a consumer that has dropped the generator at that element.
C35_OpenUntilNextRequest ==
    \A k \in Res :
        (k > cur \/ (k = cur /\ cwnPc # "close_fut")) =>
            /\ exits[k] = 0
            /\ \A t \in CwnThreads : ~ExitPending(t, k)
            /\ \A j \in 1..Len(callbacks[k]) : callbacks[k][j] # "_do_close"

\* the consumer dropped the generator at element 1 with its result in hand:
\* resource 0 was exited by the request for element 1, resource 1 is open
\* and every callback has run
C35_Witness ==
    /\ cwnPc = "closed" /\ cur = 1
    /\ got = {0, 1}
    /\ exits[0] = 1 /\ exits[1] = 0
    /\ entered[1] = "yes"
    /\ \A t \in CwnThreads : todo[t] = <<>>

\* the source future of element k has failed
SourceFailed(k) == fut[k] \in {"fail", "abort"}

\* thread t still has operation op of element k to run
OpPending(op, k) ==
    \E t \in CwnThreads : \E j \in 1..Len(todo[t]) : todo[t][j] = <<op, k>>

\* C36 as stated: when the source future of an element has failed, neither
\* __enter__ nor __exit__ is invoked for it and its derived future fails
\* with the source's exception (it has failed already, or the set_exception
\* that makes it fail is under way on the thread running the callback).
C36_FailurePassedOn ==
    \A k \in Res :
        (SourceFailed(k) /\ derived[k] # "none") =>
            /\ entered[k] = "no"
            /\ exits[k] = 0
            /\ \/ derived[k] = "fail"
               \/ derived[k] = "pending" /\ OpPending("set_exception", k)

\* ------------------------------------------------------ stores: claims
\* what get_current_environment makes of the content c of a slot
AnswerOf(c) ==
    IF Deref(c) # None /\ IsAlive(Deref(c)) THEN Deref(c) ELSE None

\* C37: with ThreadLocalStore a set_environment writes the calling thread's
\* own slot and leaves every other slot as it is, a get answers from the
\* calling thread's own slot, and a thread on which no set_environment has
\* been made gets None; with GlobalStore every set_environment writes the
\* one slot and every thread's get answers from it.
C37_StoreScope ==
    [][\A t \in PolThreads :
          /\ (SetReturns(t) /\ storeKind = "threadlocal")
             => /\ slot'[t] = Stored(arg[t])
                /\ \A u \in SlotKeys \ {t} : slot'[u] = slot[u]
          /\ (GetReturns(t) /\ storeKind = "threadlocal")
             => /\ last'.ret = AnswerOf(slot[t])
                /\ lastSet[t].by = App => last'.ret = None
          /\ (SetReturns(t) /\ storeKind = "global")
             => slot'[0] = Stored(arg[t])
          /\ (GetReturns(t) /\ storeKind = "global")
             => last'.ret = AnswerOf(slot[0])]_vars

\* GlobalStore: a thread has just got the token that another thread set
C37_Witness ==
    /\ storeKind = "global"
    /\ last.op = "get"
    /\ last.ret \in Tokens
    /\ lastSet[0].val = last.ret
    /\ lastSet[0].by \in PolThreads \ {last.t}

\* ------------------------------------------------ inline sections: claims
\* thread t leaves an inline section on this step
SectionLeaves(t) ==
    /\ Len(useStack'[t]) = Len(useStack[t]) - 1
    /\ TopBlock(t).kind = "inline"

\* C38: inline sections do not nest: leaving a section removes the thread's
\* override altogether, also when a section around it is still open, so
\* that a get is then answered from the store; and leaving a section when the
\* override is already gone (the outer section, after an inner one was
\* left) fails, while leaving one that still has it succeeds.
C38_NotReentrant ==
    [][\A t \in PolThreads :
          /\ SectionLeaves(t)
             => /\ local'[t] = None
                /\ last'.op = "inline_section_exit"
                /\ last'.ret = IF local[t] = None THEN Error ELSE None
          /\ (GetReturnsFast /\ last'.t = t) => local[t] # None
          /\ GetReturns(t) => last'.ret = StoreAnswer(t)]_vars

\* the outer of two nested sections has been left after the inner one, and
\* that failed
C38_Witness ==
    /\ last.op = "inline_section_exit"
    /\ last.ret = Error
    /\ \A t \in callers : useStack[t] = <<>> /\ local[t] = None

\* ------------------------------------------------------------ render: claims
\* C39 as stated: the future handed out for the k-th frame resolves to the
\* pair (k, data of frame k) whatever the consumer has pulled in the
\* meantime, the futures are handed out in frame order, and with y4m the
\* header comes first, as (0, header).
C39_OwnNumber ==
    /\ \A k \in FrameNos : paired[k] # NotYet => paired[k] = k
    /\ \A j \in 1..Len(handed) : handed[j] = IF y4m THEN j - 1 ELSE j
    /\ (y4m /\ handed # <<>>) => paired[0] = 0

====
